---- MODULE Spec2Model ----
(***************************************************************************)
(* Occupancy tracking engine (src/core/occupancy_engine.py), its local     *)
(* store (src/database/db.py) and the cloud synchronisation service        *)
(* (src/core/sync_service.py).                                              *)
(*                                                                         *)
(* Time is a discrete clock.  The thresholds and intervals are the         *)
(* program's configuration values; the model instantiates them with small  *)
(* numbers that keep their order (entry < exit < checkpoint interval for   *)
(* employee zones, entry > exit for client zones), so that every window    *)
(* can elapse inside the bounded horizon.                                  *)
(***************************************************************************)
EXTENDS Integers, Sequences, FiniteSets, TLC

\* ------------------------------------------------------------------ bounds
MaxTime == 12
MaxBoots == 1
MaxRows == 2
MaxFailures == 3

\* Rows of each kind in a backlog the sync service starts with
MaxBacklog == 4

\* Threads start() creates in one run
MaxThreads == 3

\* --------------------------------------------------------- configuration
ENTRY_THRESHOLD == 2
EXIT_THRESHOLD == 3
CLIENT_ENTRY_THRESHOLD == 3
CLIENT_EXIT_THRESHOLD == 2
CHECKPOINT_INTERVAL == 3

\* Synchronisation tuning (sync_service.py), in clock units
SYNC_INTERVAL_NORMAL == 1
SYNC_INTERVAL_MAX == 4
BATCH_SIZE == 1
MAX_BATCHES_PER_CYCLE == 2
BACKOFF_MULTIPLIER == 2
JITTER_MAX == 1
BRANCH_ID == 1

\* Python's None for an Optional[float] / Optional[int] / Optional[datetime]
None == -1

\* Wall clock at process start (time.time() is a positive number)
Epoch == 1

\* Place ids: 1 is an employee workstation, 2 is a client zone
Zones == {1, 2}
EmployeeId == 1

VARIABLES
    now,            \* time.time() / tashkent_now()
    places,         \* places table: zone_type, employee_id, linked_employee_id
    rois,           \* zones the camera's frame loop feeds to update()
    trackers,       \* OccupancyEngine.trackers
    sessions,       \* local table sessions (row id = index)
    client_visits,  \* local table client_visits (row id = index)
    sample,         \* the update() input processed at this instant, if any
    obs,            \* per zone: what the presence source has shown (history)
    boots,          \* number of ungraceful stops followed by a restart
    twin,           \* a second engine and store, fed the same samples, whose
                    \* checkpoint interval is longer than any session
    env,            \* environment of the process: CLOUD_API_URL and DB_DSN set or not
    netUp,          \* the remote database is reachable and accepts writes
    remote_sessions,    \* table sessions of the remote store
    remote_visits,      \* table client_visits of the remote store
    svc,            \* CloudSyncService: backoff state and position in _sync_data
    uploads,        \* per local session id: committed uploads of the
                    \* finalized row so far, counted up to 2 (history)
    life            \* lifecycle of the process: the engine before and after
                    \* shutdown(), the position of CloudSyncService.stop()
                    \* and of the service loop thread

syncvars == <<env, netUp, remote_sessions, remote_visits, svc, uploads, life>>

vars == <<now, places, rois, trackers, sessions, client_visits, sample, obs,
          boots, twin, env, netUp, remote_sessions, remote_visits, svc,
          uploads, life>>

\* ------------------------------------------------------------ ZoneTracker
Tracker0 ==
    [state |-> "VACANT",
     entry_start_time |-> None,
     exit_start_time |-> None,
     timer_start_time |-> None,
     accumulated_time |-> 0,
     session_start |-> None,
     checkpoint_db_id |-> None,
     last_checkpoint_time |-> None]

\* ZoneTracker.get_elapsed_time
get_elapsed_time(t, time) ==
    IF t.timer_start_time = None
    THEN t.accumulated_time
    ELSE t.accumulated_time + (time - t.timer_start_time)

\* ------------------------------------------------------------ local store
\* Mutant: a place without an employee is answered with the first employee
get_employee_by_place_Fallback(pl, place_id) == EmployeeId

\* Database.get_employee_by_place: the employee assigned to a place, or None
get_employee_by_place(pl, place_id) ==
    IF place_id \in DOMAIN pl /\ pl[place_id].employee_id # None
    THEN pl[place_id].employee_id
    ELSE None

\* Database.save_session: a finalized row (is_checkpoint and is_synced default 0)
save_session(ss, place_id, start_time, end_time, duration_seconds, employee_id) ==
    Append(ss, [place_id |-> place_id, employee_id |-> employee_id,
                start_time |-> start_time, end_time |-> end_time,
                duration_seconds |-> duration_seconds,
                is_checkpoint |-> 0, is_synced |-> 0])

\* Mutant: a directly inserted visit is stored without its employee
save_client_visit_NoEmployee(cv, place_id, employee_id, track_id, enter_time, exit_time, duration_seconds) ==
    Append(cv, [place_id |-> place_id, employee_id |-> None,
                track_id |-> track_id,
                enter_time |-> enter_time, exit_time |-> exit_time,
                duration_seconds |-> duration_seconds,
                is_checkpoint |-> 0, is_synced |-> 0])

\* Database.save_client_visit
save_client_visit(cv, place_id, employee_id, track_id, enter_time, exit_time, duration_seconds) ==
    Append(cv, [place_id |-> place_id, employee_id |-> employee_id,
                track_id |-> track_id,
                enter_time |-> enter_time, exit_time |-> exit_time,
                duration_seconds |-> duration_seconds,
                is_checkpoint |-> 0, is_synced |-> 0])

\* Database.save_session_checkpoint: the row is born with duration 0.0
save_session_checkpoint(ss, place_id, employee_id, start_time, time) ==
    Append(ss, [place_id |-> place_id, employee_id |-> employee_id,
                start_time |-> start_time, end_time |-> time,
                duration_seconds |-> 0,
                is_checkpoint |-> 1, is_synced |-> 0])

\* Mutant: a later checkpoint tick writes a new row instead of the same one
update_session_checkpoint_NewRow(ss, session_id, end_time, duration_seconds) ==
    IF session_id \in DOMAIN ss
    THEN Append(ss, [ss[session_id] EXCEPT !.end_time = end_time,
                                           !.duration_seconds = duration_seconds])
    ELSE ss

\* Database.update_session_checkpoint
update_session_checkpoint(ss, session_id, end_time, duration_seconds) ==
    IF session_id \in DOMAIN ss
    THEN [ss EXCEPT ![session_id].end_time = end_time,
                    ![session_id].duration_seconds = duration_seconds]
    ELSE ss

\* Mutant: the finalize write does not clear is_checkpoint
finalize_session_checkpoint_NoFlip(ss, session_id, end_time, duration_seconds) ==
    IF session_id \in DOMAIN ss
    THEN [ss EXCEPT ![session_id].end_time = end_time,
                    ![session_id].duration_seconds = duration_seconds]
    ELSE ss

\* Mutant: the finalize write keeps the duration of the last checkpoint
finalize_session_checkpoint_KeepDuration(ss, session_id, end_time, duration_seconds) ==
    IF session_id \in DOMAIN ss
    THEN [ss EXCEPT ![session_id].end_time = end_time,
                    ![session_id].is_checkpoint = 0]
    ELSE ss

\* Database.finalize_session_checkpoint
finalize_session_checkpoint(ss, session_id, end_time, duration_seconds) ==
    IF session_id \in DOMAIN ss
    THEN [ss EXCEPT ![session_id].end_time = end_time,
                    ![session_id].duration_seconds = duration_seconds,
                    ![session_id].is_checkpoint = 0]
    ELSE ss

\* Database.save_client_visit_checkpoint
save_client_visit_checkpoint(cv, place_id, employee_id, track_id, enter_time, time) ==
    Append(cv, [place_id |-> place_id, employee_id |-> employee_id,
                track_id |-> track_id,
                enter_time |-> enter_time, exit_time |-> time,
                duration_seconds |-> 0,
                is_checkpoint |-> 1, is_synced |-> 0])

\* Database.update_client_visit_checkpoint
update_client_visit_checkpoint(cv, visit_id, exit_time, duration_seconds) ==
    IF visit_id \in DOMAIN cv
    THEN [cv EXCEPT ![visit_id].exit_time = exit_time,
                    ![visit_id].duration_seconds = duration_seconds]
    ELSE cv

\* Database.finalize_client_visit_checkpoint
finalize_client_visit_checkpoint(cv, visit_id, exit_time, duration_seconds) ==
    IF visit_id \in DOMAIN cv
    THEN [cv EXCEPT ![visit_id].exit_time = exit_time,
                    ![visit_id].duration_seconds = duration_seconds,
                    ![visit_id].is_checkpoint = 0]
    ELSE cv

\* Mutant: recovery flips the rows and drops their duration
finalize_stale_checkpoints_ZeroDuration(rows) ==
    [i \in DOMAIN rows |->
        IF rows[i].is_checkpoint = 1
        THEN [rows[i] EXCEPT !.is_checkpoint = 0, !.duration_seconds = 0]
        ELSE rows[i]]

\* Database.finalize_stale_checkpoints, on one table: only is_checkpoint changes
finalize_stale_checkpoints(rows) ==
    [i \in DOMAIN rows |->
        IF rows[i].is_checkpoint = 1
        THEN [rows[i] EXCEPT !.is_checkpoint = 0]
        ELSE rows[i]]

\* ------------------------------------------------------ OccupancyEngine
\* update(): thresholds by zone type
entry_thresh(zone_type) ==
    IF zone_type = "client" THEN CLIENT_ENTRY_THRESHOLD ELSE ENTRY_THRESHOLD

exit_thresh(zone_type) ==
    IF zone_type = "client" THEN CLIENT_EXIT_THRESHOLD ELSE EXIT_THRESHOLD

\* Mutant: the entry is confirmed one unit early
EntryConfirmed_Early(elapsed, thresh) == elapsed >= thresh - 1

\* update(), CHECKING_ENTRY: "if elapsed >= entry_thresh"
EntryConfirmed(elapsed, thresh) == elapsed >= thresh

\* Mutant: the grace period expires one unit early
GraceExpired_Early(elapsed, thresh) == elapsed >= thresh - 1

\* update(), CHECKING_EXIT: "if elapsed >= exit_thresh"
GraceExpired(elapsed, thresh) == elapsed >= thresh

\* Mutant: a checkpoint is due on every present sample
CheckpointDue_Always(t, time, interval) == TRUE

\* update(), OCCUPIED: "last_checkpoint_time and
\*                      current_time - last_checkpoint_time >= CHECKPOINT_INTERVAL"
CheckpointDue(t, time, interval) ==
    /\ t.last_checkpoint_time # None
    /\ t.last_checkpoint_time # 0
    /\ time - t.last_checkpoint_time >= interval

\* Mutant: the timer starts at the confirmation instead of the first detection
TimerStart_Now(t, time) == time

\* update(), entry confirmed: "tracker.timer_start_time = tracker.entry_start_time"
TimerStart(t, time) == t.entry_start_time

\* _complete_session: "duration = tracker.accumulated_time"
FinalDuration(t) == t.accumulated_time

\* _save_or_update_checkpoint: accumulated_time plus the running timer
CheckpointDuration(t, time) ==
    IF t.timer_start_time # None /\ t.timer_start_time # 0
    THEN t.accumulated_time + (time - t.timer_start_time)
    ELSE t.accumulated_time

\* OccupancyEngine._save_or_update_checkpoint; e is the engine's tracker and
\* the two tables, the result is the same triple after the call
_save_or_update_checkpoint(e, pl, zone_id, zone_type, linked_employee_id, time) ==
    LET t == e.t
        duration == CheckpointDuration(t, time)
    IN  IF t.session_start = None THEN e
        ELSE IF zone_type = "client"
        THEN LET real_emp_id == get_employee_by_place(pl, linked_employee_id)
             IN  IF linked_employee_id = None \/ linked_employee_id = 0 THEN e
                 ELSE IF real_emp_id = None THEN e
                 ELSE IF t.checkpoint_db_id = None
                 THEN [e EXCEPT
                         !.cv = save_client_visit_checkpoint(
                                    e.cv, zone_id, real_emp_id, 0,
                                    t.session_start, time),
                         !.t.checkpoint_db_id = Len(e.cv) + 1]
                 ELSE [e EXCEPT
                         !.cv = update_client_visit_checkpoint(
                                    e.cv, t.checkpoint_db_id, time, duration)]
        ELSE LET employee_id == get_employee_by_place(pl, zone_id)
             IN  IF t.checkpoint_db_id = None
                 THEN [e EXCEPT
                         !.ss = save_session_checkpoint(
                                    e.ss, zone_id, employee_id,
                                    t.session_start, time),
                         !.t.checkpoint_db_id = Len(e.ss) + 1]
                 ELSE [e EXCEPT
                         !.ss = update_session_checkpoint(
                                    e.ss, t.checkpoint_db_id, time, duration)]

\* Mutant: the reset leaves the checkpoint id in place
ResetTracker_KeepCheckpoint(t) ==
    [Tracker0 EXCEPT !.checkpoint_db_id = t.checkpoint_db_id]

\* _complete_session, "Reset tracker": every field gets its initial value
ResetTracker(t) == Tracker0

\* OccupancyEngine._complete_session: persist, then reset the tracker
_complete_session(e, pl, zone_id, zone_type, linked_employee_id, time) ==
    LET t == e.t
        duration == FinalDuration(t)
        has_cp == t.checkpoint_db_id # None /\ t.checkpoint_db_id # 0
        saved ==
            IF has_cp \/ (t.session_start # None /\ duration > 0)
            THEN IF zone_type = "client"
                 THEN LET real_employee_id ==
                              IF linked_employee_id # None /\ linked_employee_id # 0
                              THEN get_employee_by_place(pl, linked_employee_id)
                              ELSE None
                      IN  IF real_employee_id # None
                          THEN IF has_cp
                               THEN [e EXCEPT !.cv =
                                       finalize_client_visit_checkpoint(
                                           e.cv, t.checkpoint_db_id, time, duration)]
                               ELSE [e EXCEPT !.cv =
                                       save_client_visit(
                                           e.cv, zone_id, real_employee_id, 0,
                                           t.session_start, time, duration)]
                          ELSE e
                 ELSE LET employee_id == get_employee_by_place(pl, zone_id)
                      IN  IF has_cp
                          THEN [e EXCEPT !.ss =
                                  finalize_session_checkpoint(
                                      e.ss, t.checkpoint_db_id, time, duration)]
                          ELSE [e EXCEPT !.ss =
                                  save_session(
                                      e.ss, zone_id, t.session_start, time,
                                      duration, employee_id)]
            ELSE e
    IN  [saved EXCEPT !.t = ResetTracker(t)]

\* OccupancyEngine.update on one zone's tracker
update(e, pl, zone_id, is_person_present, zone_type, linked_employee_id, time, interval) ==
    LET t == e.t
    IN  CASE t.state = "VACANT" ->
               IF is_person_present
               THEN [e EXCEPT !.t.state = "CHECKING_ENTRY",
                              !.t.entry_start_time = time]
               ELSE e
          [] t.state = "CHECKING_ENTRY" ->
               IF is_person_present
               THEN IF EntryConfirmed(time - t.entry_start_time,
                                      entry_thresh(zone_type))
                    THEN [e EXCEPT
                            !.t.state = "OCCUPIED",
                            !.t.timer_start_time = TimerStart(t, time),
                            !.t.accumulated_time = 0,
                            !.t.session_start = time - entry_thresh(zone_type),
                            !.t.last_checkpoint_time = time]
                    ELSE e
               ELSE [e EXCEPT !.t.state = "VACANT",
                              !.t.entry_start_time = None]
          [] t.state = "OCCUPIED" ->
               IF ~is_person_present
               THEN LET flushed ==
                          IF t.timer_start_time # None /\ t.timer_start_time # 0
                          THEN [t EXCEPT
                                  !.accumulated_time = @ + (time - t.timer_start_time),
                                  !.timer_start_time = None]
                          ELSE t
                    IN  [e EXCEPT !.t = [flushed EXCEPT
                                           !.state = "CHECKING_EXIT",
                                           !.exit_start_time = time]]
               ELSE IF CheckpointDue(t, time, interval)
                    THEN LET c == _save_or_update_checkpoint(
                                      e, pl, zone_id, zone_type,
                                      linked_employee_id, time)
                         IN  [c EXCEPT !.t.last_checkpoint_time = time]
                    ELSE e
          [] t.state = "CHECKING_EXIT" ->
               IF is_person_present
               THEN [e EXCEPT !.t.state = "OCCUPIED",
                              !.t.timer_start_time = time,
                              !.t.exit_start_time = None]
               ELSE IF GraceExpired(time - t.exit_start_time,
                                    exit_thresh(zone_type))
                    THEN _complete_session(e, pl, zone_id, zone_type,
                                           linked_employee_id, time)
                    ELSE e


\* force_save_session: "Filter noise < 1s"
SHUTDOWN_MIN_DURATION == 1

\* OccupancyEngine.force_save_session: the running timer is flushed into
\* accumulated_time; a session with a start and more than the noise floor is
\* written to the sessions table, as the end of its checkpoint row when the
\* tracker holds a checkpoint id, as a new row otherwise. The tracker keeps
\* its state.
force_save_session(e, pl, zone_id, time) ==
    LET t0 == e.t
        running == t0.timer_start_time # None /\ t0.timer_start_time # 0
        t == IF running
             THEN [t0 EXCEPT !.accumulated_time = @ + (time - t0.timer_start_time),
                             !.timer_start_time = None]
             ELSE t0
        duration == t.accumulated_time
        has_cp == t.checkpoint_db_id # None /\ t.checkpoint_db_id # 0
    IN  IF t.session_start # None /\ t.session_start # 0 /\ duration > SHUTDOWN_MIN_DURATION
        THEN IF has_cp
             THEN [e EXCEPT !.t = t,
                            !.ss = finalize_session_checkpoint(e.ss, t.checkpoint_db_id,
                                                               time, duration)]
             ELSE [e EXCEPT !.t = t,
                            !.ss = save_session(e.ss, zone_id, t.session_start, time,
                                                duration, get_employee_by_place(pl, zone_id))]
        ELSE [e EXCEPT !.t = t]

\* OccupancyEngine.shutdown: force_save_session for every tracker that is
\* OCCUPIED or CHECKING_EXIT, in the order of the trackers dict
RECURSIVE shutdown(_, _, _, _)
shutdown(d, pl, S, time) ==
    IF S = {} THEN d
    ELSE LET z == CHOOSE x \in S : \A y \in S : x <= y
             r == IF d.tr[z].state \in {"OCCUPIED", "CHECKING_EXIT"}
                  THEN force_save_session([t |-> d.tr[z], ss |-> d.ss, cv |-> d.cv],
                                          pl, z, time)
                  ELSE [t |-> d.tr[z], ss |-> d.ss, cv |-> d.cv]
         IN  shutdown([tr |-> [d.tr EXCEPT ![z] = r.t], ss |-> r.ss, cv |-> r.cv],
                      pl, S \ {z}, time)

\* ------------------------------------------------------ sync queries
\* The ids of the first `limit` rows of a table with is_synced = 0 and
\* is_checkpoint = 0, in row-id order (the query has no ORDER BY; the local
\* store scans by row id)
\* (first the mutant: the query filters on is_synced = 0 only)
get_unsynced_NoCheckpointFilter(rows, limit) ==
    LET U == {i \in DOMAIN rows : rows[i].is_synced = 0}
    IN  {i \in U : Cardinality({j \in U : j < i}) < limit}

get_unsynced(rows, limit) ==
    LET U == {i \in DOMAIN rows :
                 rows[i].is_synced = 0 /\ rows[i].is_checkpoint = 0}
    IN  {i \in U : Cardinality({j \in U : j < i}) < limit}

\* Mutant: the UPDATE also clears the duration of the rows it marks
mark_as_synced_ClearsDuration(rows, record_ids) ==
    [i \in DOMAIN rows |->
        IF i \in record_ids
        THEN [rows[i] EXCEPT !.is_synced = 1, !.duration_seconds = 0]
        ELSE rows[i]]

\* Mutant: the UPDATE is never committed
mark_as_synced_NotCommitted(rows, record_ids) == rows

\* Database.mark_as_synced
mark_as_synced(rows, record_ids) ==
    [i \in DOMAIN rows |->
        IF i \in record_ids THEN [rows[i] EXCEPT !.is_synced = 1]
        ELSE rows[i]]

\* ------------------------------------------------------ CloudSyncService
\* CloudSyncService.__init__: "localhost" in CLOUD_API_BASE and not DB_DSN;
\* CLOUD_API_BASE defaults to http://localhost:8000/api/v1
MockMode(e) == (~e.CLOUD_API_URL) /\ (~e.DB_DSN)

\* _get_cloud_session yields a session: not in mock mode, DB_DSN is set and
\* the remote is reachable
CloudSessionOk(e, up) == (~MockMode(e)) /\ e.DB_DSN /\ up

\* The row _upload_to_cloud_db sends for a local Session row
CloudSessionRow(id, r) ==
    [local_id |-> id, branch_id |-> BRANCH_ID, place_id |-> r.place_id,
     employee_id |-> r.employee_id, start_time |-> r.start_time,
     end_time |-> r.end_time, duration_seconds |-> r.duration_seconds,
     is_synced |-> 1, is_checkpoint |-> 0]

\* The row _upload_to_cloud_db sends for a local ClientVisit row
CloudVisitRow(id, r) ==
    [local_id |-> id, branch_id |-> BRANCH_ID, place_id |-> r.place_id,
     employee_id |-> r.employee_id, track_id |-> r.track_id,
     enter_time |-> r.enter_time, exit_time |-> r.exit_time,
     duration_seconds |-> r.duration_seconds,
     is_synced |-> 1, is_checkpoint |-> 0]

SameKey(a, b) == a.branch_id = b.branch_id /\ a.local_id = b.local_id

\* Mutant: a plain INSERT, without ON CONFLICT (branch_id, local_id)
UpsertSession_PlainInsert(remote, new) == Append(remote, new)

\* INSERT INTO sessions ... ON CONFLICT (branch_id, local_id) DO UPDATE SET
\* end_time, duration_seconds, is_synced = 1, is_checkpoint = 0
UpsertSession(remote, new) ==
    IF \E k \in DOMAIN remote : SameKey(remote[k], new)
    THEN [k \in DOMAIN remote |->
            IF SameKey(remote[k], new)
            THEN [remote[k] EXCEPT !.end_time = new.end_time,
                                   !.duration_seconds = new.duration_seconds,
                                   !.is_synced = 1,
                                   !.is_checkpoint = 0]
            ELSE remote[k]]
    ELSE Append(remote, new)

\* INSERT INTO client_visits ... ON CONFLICT (branch_id, local_id) DO UPDATE
\* SET exit_time, duration_seconds, is_synced = 1, is_checkpoint = 0
UpsertVisit(remote, new) ==
    IF \E k \in DOMAIN remote : SameKey(remote[k], new)
    THEN [k \in DOMAIN remote |->
            IF SameKey(remote[k], new)
            THEN [remote[k] EXCEPT !.exit_time = new.exit_time,
                                   !.duration_seconds = new.duration_seconds,
                                   !.is_synced = 1,
                                   !.is_checkpoint = 0]
            ELSE remote[k]]
    ELSE Append(remote, new)

\* _upload_to_cloud_db("session", records): one transaction over the batch
RECURSIVE UploadSessions(_, _, _)
UploadSessions(remote, rows, ids) ==
    IF ids = {} THEN remote
    ELSE LET i == CHOOSE x \in ids : \A y \in ids : x <= y
         IN  UploadSessions(UpsertSession(remote, CloudSessionRow(i, rows[i])),
                            rows, ids \ {i})

\* _upload_to_cloud_db("client_visit", records)
RECURSIVE UploadVisits(_, _, _)
UploadVisits(remote, rows, ids) ==
    IF ids = {} THEN remote
    ELSE LET i == CHOOSE x \in ids : \A y \in ids : x <= y
         IN  UploadVisits(UpsertVisit(remote, CloudVisitRow(i, rows[i])),
                          rows, ids \ {i})

\* Database.get_active_checkpoints: the ids of the rows with is_checkpoint = 1
get_active_checkpoints(rows) ==
    {i \in DOMAIN rows : rows[i].is_checkpoint = 1}

\* The row _sync_checkpoints sends for a local checkpoint row: no end_time,
\* duration_seconds = now - start_time
MirrorRow(id, r, duration) ==
    [local_id |-> id, branch_id |-> BRANCH_ID, place_id |-> r.place_id,
     employee_id |-> r.employee_id, start_time |-> r.start_time,
     end_time |-> None, duration_seconds |-> duration,
     is_synced |-> 1, is_checkpoint |-> 1]

\* Mutant: the DO UPDATE has no WHERE sessions.is_checkpoint = 1
UpsertMirror_NoGuard(remote, new) ==
    IF \E k \in DOMAIN remote : SameKey(remote[k], new)
    THEN [k \in DOMAIN remote |->
            IF SameKey(remote[k], new)
            THEN [remote[k] EXCEPT !.duration_seconds = new.duration_seconds,
                                   !.is_checkpoint = 1]
            ELSE remote[k]]
    ELSE Append(remote, new)

\* _sync_checkpoints: INSERT ... ON CONFLICT (branch_id, local_id) DO UPDATE
\* SET duration_seconds, is_checkpoint = 1 WHERE sessions.is_checkpoint = 1
UpsertMirror(remote, new) ==
    IF \E k \in DOMAIN remote : SameKey(remote[k], new)
    THEN [k \in DOMAIN remote |->
            IF SameKey(remote[k], new) /\ remote[k].is_checkpoint = 1
            THEN [remote[k] EXCEPT !.duration_seconds = new.duration_seconds,
                                   !.is_checkpoint = 1]
            ELSE remote[k]]
    ELSE Append(remote, new)

\* _sync_checkpoints: one transaction over the active checkpoints
RECURSIVE MirrorCheckpoints(_, _, _, _)
MirrorCheckpoints(remote, rows, ids, duration) ==
    IF ids = {} THEN remote
    ELSE LET i == CHOOSE x \in ids : \A y \in ids : x <= y
         IN  MirrorCheckpoints(
                 UpsertMirror(remote, MirrorRow(i, rows[i], duration)),
                 rows, ids \ {i}, duration)

\* Mutant: the upload reports success whatever happened
UploadResult_AlwaysTrue(e, up) == TRUE

\* _upload_to_cloud_db returns True after the commit, False when there is
\* no cloud session or the write failed and was rolled back
UploadResult(e, up) == CloudSessionOk(e, up)

Min(a, b) == IF a <= b THEN a ELSE b

RECURSIVE Pow(_, _)
Pow(b, n) == IF n = 0 THEN 1 ELSE b * Pow(b, n - 1)

\* Mutant: past the cap the interval starts again from the base
BackoffInterval_WrapAtCap(failures, jitter) ==
    (IF SYNC_INTERVAL_NORMAL * Pow(BACKOFF_MULTIPLIER, failures)
          > SYNC_INTERVAL_MAX
     THEN SYNC_INTERVAL_NORMAL
     ELSE SYNC_INTERVAL_NORMAL * Pow(BACKOFF_MULTIPLIER, failures)) + jitter

\* Mutant: the exponential part is not capped
BackoffInterval_NoCap(failures, jitter) ==
    SYNC_INTERVAL_NORMAL * Pow(BACKOFF_MULTIPLIER, failures) + jitter

\* _on_sync_failure: min(NORMAL * MULTIPLIER ** failures, MAX) + jitter
BackoffInterval(failures, jitter) ==
    Min(SYNC_INTERVAL_NORMAL * Pow(BACKOFF_MULTIPLIER, failures),
        SYNC_INTERVAL_MAX) + jitter

\* The longest interval the service can wait
IntervalCap == SYNC_INTERVAL_MAX + JITTER_MAX

\* CloudSyncService.__init__, with the position in _sync_data:
\*   pc               idle (in _service_loop), or the next step of _sync_data
\*   batch            ids of the batch uploaded and not yet marked
\*   since_sync       time.time() - last_sync, counted up to IntervalCap
\*                    (last_sync starts at 0.0, so the first pass is due)
\*   success          what the latest _sync_data returned to _service_loop
\*   restored         the latest _on_sync_success printed "Connection
\*                    restored after N failed attempts"
Svc0 ==
    [pc |-> "idle", batch |-> {}, batches_processed |-> 0,
     any_success |-> FALSE, data_found |-> FALSE,
     since_sync |-> IntervalCap,
     current_sync_interval |-> SYNC_INTERVAL_NORMAL,
     consecutive_failures |-> 0, is_healthy |-> TRUE,
     success |-> FALSE, restored |-> FALSE]

\* Mutant: the interval is left where the backoff put it
_on_sync_success_KeepInterval(v) ==
    [v EXCEPT !.restored = ~v.is_healthy,
              !.consecutive_failures = 0,
              !.is_healthy = TRUE]

\* _on_sync_success
_on_sync_success(v) ==
    [v EXCEPT !.restored = ~v.is_healthy,
              !.consecutive_failures = 0,
              !.current_sync_interval = SYNC_INTERVAL_NORMAL,
              !.is_healthy = TRUE]

\* _on_sync_failure
_on_sync_failure(v, jitter) ==
    [v EXCEPT !.consecutive_failures = @ + 1,
              !.is_healthy = FALSE,
              !.restored = FALSE,
              !.current_sync_interval =
                  BackoffInterval(v.consecutive_failures + 1, jitter)]

\* _service_loop after _sync_data has returned `success`:
\* last_sync = now, then the backoff model
AfterSync(v, success, jitter) ==
    LET w == [v EXCEPT !.pc = "idle", !.batch = {}, !.since_sync = 0,
                       !.success = success]
    IN  IF success THEN _on_sync_success(w) ELSE _on_sync_failure(w, jitter)

\* ------------------------------------------------- presence source (history)
\* What the presence source has shown for a zone since its tracker last left
\* VACANT.  It is computed from the samples alone, never from tracker fields:
\*   first        instant of the sample that took the tracker out of VACANT
\*   gap          some sample since then was absent
\*   lastP        the latest sample was present
\*   occ, since   the time covered by present samples, each present sample
\*                counting until the next sample of the zone: it is occ after
\*                an absent sample, and T - since at an instant T that follows
\*                a present sample (since moves forward by every absence)
\*   absentSince  instant of the first sample of the current run of absences
\*   base_s/base_c  rows in the two tables before the session began
\*   completed    while nothing is shown: the latest presence shown ended
\*                with an absence of at least the zone's exit threshold
Obs0 ==
    [first |-> None, gap |-> FALSE, lastP |-> FALSE, occ |-> 0, since |-> None,
     absentSince |-> None, base_s |-> 0, base_c |-> 0, completed |-> FALSE]

Observe(o, was_vacant, present, time, ns, nc) ==
    IF was_vacant
    THEN IF present
         THEN [first |-> time, gap |-> FALSE, lastP |-> TRUE, occ |-> 0,
               since |-> time, absentSince |-> None, base_s |-> ns,
               base_c |-> nc, completed |-> FALSE]
         ELSE Obs0
    ELSE IF present
    THEN [o EXCEPT !.lastP = TRUE,
                   !.since = IF o.lastP THEN @ ELSE time - o.occ,
                   !.absentSince = None]
    ELSE [o EXCEPT !.lastP = FALSE,
                   !.occ = IF o.lastP THEN time - o.since ELSE @,
                   !.gap = TRUE,
                   !.absentSince = IF o.lastP THEN time ELSE @]

\* The absent sample at `time` ends a run of absences of at least `thresh`
AbsenceCompleted(o, present, time, thresh) ==
    /\ ~present
    /\ o.absentSince # None
    /\ time - o.absentSince >= thresh

\* The occupied time the presence source has shown up to the instant `time`
Occupied(o, time) == IF o.lastP THEN time - o.since ELSE o.occ

NoSample == [zone |-> 0, present |-> FALSE]

\* Sum of duration_seconds over the rows of a table with index in S
RECURSIVE SumDuration(_, _)
SumDuration(rows, S) ==
    IF S = {} THEN 0
    ELSE LET i == CHOOSE x \in S : TRUE
         IN  rows[i].duration_seconds + SumDuration(rows, S \ {i})

\* Database.get_total_time_for_day: sum of duration_seconds over the Session
\* rows of a place (of one day)
get_total_time_for_day(ss, place_id) ==
    SumDuration(ss, {i \in DOMAIN ss : ss[i].place_id = place_id})

\* Database.get_total_time_for_employee_day: sum over the Session rows of an
\* employee, whatever their place
get_total_time_for_employee_day(ss, employee_id) ==
    SumDuration(ss, {i \in DOMAIN ss : ss[i].employee_id = employee_id})

\* OccupancyEngine.get_zone_time
get_zone_time(tr, zone_id, time) == get_elapsed_time(tr[zone_id], time)

\* Mutant: the total is always taken by place
get_total_daily_time_ByPlace(pl, ss, tr, zone_id, time) ==
    get_total_time_for_day(ss, zone_id) + get_zone_time(tr, zone_id, time)

\* OccupancyEngine.get_total_daily_time
get_total_daily_time(pl, ss, tr, zone_id, time) ==
    LET employee == get_employee_by_place(pl, zone_id)
        historical_total ==
            IF employee # None
            THEN get_total_time_for_employee_day(ss, employee)
            ELSE get_total_time_for_day(ss, zone_id)
    IN  historical_total + get_zone_time(tr, zone_id, time)

\* Rows of a zone created after the first `base` rows of a table
RowsSince(rows, zone_id, base) ==
    {i \in DOMAIN rows : i > base /\ rows[i].place_id = zone_id}

\* Mutant: the loop of _sync_data has no cap on its rounds
PassContinues_Always(batches_processed) == TRUE

\* _sync_data: while batches_processed < MAX_BATCHES_PER_CYCLE
PassContinues(batches_processed) == batches_processed < MAX_BATCHES_PER_CYCLE

\* CloudSyncService._sync_data as one call: in mock mode one batch of each
\* table is marked; otherwise up to MAX_BATCHES_PER_CYCLE rounds of one batch
\* of sessions and one of client visits, each uploaded and then marked, the
\* call ending at the first failed upload or when a round found nothing.
\* d holds the local tables ss and cv, the remote tables rs and rv and the
\* upload counts up.
RECURSIVE _sync_data(_, _, _, _)
_sync_data(d, e, up, batches_processed) ==
    IF MockMode(e)
    THEN [d EXCEPT !.ss = mark_as_synced(d.ss, get_unsynced(d.ss, BATCH_SIZE)),
                   !.cv = mark_as_synced(d.cv, get_unsynced(d.cv, BATCH_SIZE))]
    ELSE IF ~PassContinues(batches_processed) THEN d
    ELSE LET sids == get_unsynced(d.ss, BATCH_SIZE)
             d1 == IF sids = {} THEN d
                   ELSE [d EXCEPT
                           !.rs = IF CloudSessionOk(e, up)
                                  THEN UploadSessions(d.rs, d.ss, sids) ELSE @,
                           !.up = IF CloudSessionOk(e, up)
                                  THEN [i \in DOMAIN d.up |->
                                          IF i \in sids /\ d.up[i] < 2
                                          THEN d.up[i] + 1 ELSE d.up[i]]
                                  ELSE @,
                           !.ss = IF UploadResult(e, up)
                                  THEN mark_as_synced(d.ss, sids) ELSE @]
             vids == get_unsynced(d1.cv, BATCH_SIZE)
             d2 == IF vids = {} THEN d1
                   ELSE [d1 EXCEPT
                           !.rv = IF CloudSessionOk(e, up)
                                  THEN UploadVisits(d1.rv, d1.cv, vids) ELSE @,
                           !.cv = IF UploadResult(e, up)
                                  THEN mark_as_synced(d1.cv, vids) ELSE @]
         IN  IF sids # {} /\ ~UploadResult(e, up) THEN d1
             ELSE IF vids # {} /\ ~UploadResult(e, up) THEN d2
             ELSE IF sids = {} /\ vids = {} THEN d2
             ELSE _sync_data(d2, e, up, batches_processed + 1)

\* _close_cloud_checkpoints: UPDATE sessions SET is_checkpoint = 0,
\* end_time = NOW(), duration_seconds = NOW() - start_time
\* WHERE branch_id = :branch_id AND is_checkpoint = 1
_close_cloud_checkpoints(remote, time) ==
    [k \in DOMAIN remote |->
        IF remote[k].branch_id = BRANCH_ID /\ remote[k].is_checkpoint = 1
        THEN [remote[k] EXCEPT !.is_checkpoint = 0,
                               !.end_time = time,
                               !.duration_seconds = time - remote[k].start_time]
        ELSE remote[k]]

\* Mutant: stop() closes the remote checkpoints before its final sync pass
StopNext_CloseFirst(step) ==
    CASE step = "running" -> "join"
      [] step = "join" -> "close"
      [] step = "close" -> "final_sync"
      [] step = "final_sync" -> "dispose"
      [] step = "dispose" -> "returned"

\* CloudSyncService.stop: the statement that follows each of its steps
StopNext(step) ==
    CASE step = "running" -> "join"
      [] step = "join" -> "final_sync"
      [] step = "final_sync" -> "close"
      [] step = "close" -> "dispose"
      [] step = "dispose" -> "returned"

\* _sync_checkpoints is not between its read and its write
NoMirror == [pc |-> "none", ids |-> {}, late |-> {}]

\* No batch: what the service remembers of rejected batches (nothing)
NoBatch == [type |-> "none", ids |-> {}]

\* The unsynced query of a table has been issued: the batch rejected from
\* that table, if any, is no longer awaited
Requeried(l, type) ==
    IF l.rejected.type = type THEN [l EXCEPT !.rejected = NoBatch] ELSE l

\* The process after construction: the engine takes frames, stop() has not
\* been called, the service loop thread runs (is_running)
Life0 ==
    [engine |-> "up",       \* "up", or "down" after OccupancyEngine.shutdown()
     stop |-> "running",    \* the step stop() takes next; "running" before stop()
     loop |-> "running",    \* the loop thread: "running", "draining" (is_running
                            \* is False, its iteration not finished), "exited"
     done |-> <<>>,         \* the steps stop() has performed, in order (history)
     closed |-> FALSE,      \* stop() committed its force-close at the remote
     rejected |-> NoBatch,  \* the batch the remote rejected and the service
                            \* has not read again since (history)
     poison |-> None,       \* the id of the local Session row whose statement
                            \* the remote rejects at every upload, if any
     threads |-> <<>>,      \* start() and stop() called in any order: the
                            \* service's is_running and thread fields, the
                            \* caller's position in stop() and every thread
                            \* start() has created (see Threads0)
     mirror |-> NoMirror]   \* _sync_checkpoints taken in two steps: the ids it
                            \* has read and not yet written ("read"), or
                            \* wrote last ("written", history); late are
                            \* those whose finalized row the remote already
                            \* held when they were written (history)

\* ------------------------------------------------------------------ states
PlaceRow(zone_type, employee_id, linked_employee_id) ==
    [zone_type |-> zone_type, employee_id |-> employee_id,
     linked_employee_id |-> linked_employee_id]

\* The places table: place 1 is an employee zone, with or without an assigned
\* employee; place 2 is a client zone, linked to place 1 or to nothing
PlaceConfigs ==
    {[z \in Zones |->
        IF z = 1 THEN PlaceRow("employee", emp, None)
                 ELSE PlaceRow("client", None, link)] :
     emp \in {None, EmployeeId}, link \in {None, 1}}

\* The second engine: its trackers and tables, and the number of checkpoint
\* writes the first engine has made in its current or latest session
Twin0 == [trackers |-> [z \in Zones |-> Tracker0],
          sessions |-> <<>>, client_visits |-> <<>>, ticks |-> 0]

\* A checkpoint interval longer than any session of the bounded horizon
LongInterval == MaxTime + 1

Init ==
    /\ now = Epoch
    /\ places \in PlaceConfigs
    /\ rois \in {{1}, {2}}
    /\ rois = {1} => places[2].linked_employee_id = 1
    /\ trackers = [z \in Zones |-> Tracker0]
    /\ sessions = <<>>
    /\ client_visits = <<>>
    /\ sample = NoSample
    /\ obs = [z \in Zones |-> Obs0]
    /\ boots = 0
    /\ twin = Twin0
    /\ env = [CLOUD_API_URL |-> FALSE, DB_DSN |-> TRUE]
    /\ netUp = TRUE
    /\ remote_sessions = <<>>
    /\ remote_visits = <<>>
    /\ svc = Svc0
    /\ uploads = [i \in 1..MaxRows |-> 0]
    /\ life = Life0

\* The sync service next to a store the engine writes to; no frame is
\* processed, the engine's writes are the store operations it calls
InitSync ==
    /\ now = Epoch
    /\ places = [z \in Zones |->
                   IF z = 1 THEN PlaceRow("employee", EmployeeId, None)
                            ELSE PlaceRow("client", None, 1)]
    /\ rois = {}
    /\ trackers = [z \in Zones |-> Tracker0]
    /\ sessions = <<>>
    /\ client_visits = <<>>
    /\ sample = NoSample
    /\ obs = [z \in Zones |-> Obs0]
    /\ boots = 0
    /\ twin = Twin0
    /\ env \in [CLOUD_API_URL : BOOLEAN, DB_DSN : BOOLEAN]
    /\ netUp \in BOOLEAN
    /\ remote_sessions = <<>>
    /\ remote_visits = <<>>
    /\ svc = Svc0
    /\ uploads = [i \in 1..MaxRows |-> 0]
    /\ life = Life0

\* ------------------------------------------------------------------ actions
\* The wall clock advances by one unit
Tick ==
    /\ now < MaxTime
    /\ now' = now + 1
    /\ sample' = NoSample
    /\ UNCHANGED <<places, rois, trackers, sessions, client_visits, obs,
                   boots, twin>>
    /\ UNCHANGED syncvars

\* One engine step on one zone: update() with the zone's type and link as
\* the caller passes them
EngineStep(tr, ss, cv, pl, z, present, time, interval) ==
    update([t |-> tr[z], ss |-> ss, cv |-> cv], pl, z, present,
           pl[z].zone_type, pl[z].linked_employee_id, time, interval)

\* The frame loop (CameraProcessor.process_frame) calls update() for a zone
\* with the presence the detector reported
UpdateEngine(z, present) ==
    LET r == EngineStep(trackers, sessions, client_visits, places, z, present,
                        now, CHECKPOINT_INTERVAL)
    IN  /\ z \in rois
        /\ trackers' = [trackers EXCEPT ![z] = r.t]
        /\ sessions' = r.ss
        /\ client_visits' = r.cv
        /\ sample' = [zone |-> z, present |-> present]
        /\ obs' = [obs EXCEPT ![z] =
                     IF r.t.state = "VACANT"
                     THEN [Obs0 EXCEPT !.completed =
                              \/ obs[z].completed
                              \/ AbsenceCompleted(obs[z], present, now,
                                      exit_thresh(places[z].zone_type))]
                     ELSE Observe(@, trackers[z].state = "VACANT", present,
                                  now, Len(sessions), Len(client_visits))]
        /\ UNCHANGED <<now, places, rois, boots>>
        /\ UNCHANGED syncvars

Update(z, present) ==
    /\ UpdateEngine(z, present)
    /\ UNCHANGED twin

\* The same sample given to both engines
UpdateBoth(z, present) ==
    LET r == EngineStep(trackers, sessions, client_visits, places, z, present,
                        now, CHECKPOINT_INTERVAL)
        w == EngineStep(twin.trackers, twin.sessions, twin.client_visits,
                        places, z, present, now, LongInterval)
        wrote == /\ r.t.state = "OCCUPIED"
                 /\ (r.ss # sessions \/ r.cv # client_visits)
    IN  /\ UpdateEngine(z, present)
        /\ twin' = [trackers |-> [twin.trackers EXCEPT ![z] = w.t],
                    sessions |-> w.ss,
                    client_visits |-> w.cv,
                    ticks |-> IF trackers[z].state = "VACANT" /\ present THEN 0
                              ELSE IF wrote THEN twin.ticks + 1
                              ELSE twin.ticks]

\* The process stops ungracefully (power loss, kill) and is started again:
\* the trackers are gone, Database.__init__ runs finalize_stale_checkpoints,
\* OccupancyEngine.__init__ starts with no tracker
CrashRestart ==
    LET ss2 == finalize_stale_checkpoints(sessions)
        cv2 == finalize_stale_checkpoints(client_visits)
    IN  /\ boots < MaxBoots
        /\ boots' = boots + 1
        /\ sessions' = ss2
        /\ client_visits' = cv2
        /\ trackers' = [z \in Zones |-> Tracker0]
        /\ sample' = NoSample
        /\ obs' = [z \in Zones |-> Obs0]
        /\ UNCHANGED <<now, places, rois, twin>>
        /\ UNCHANGED syncvars

\* The application shuts the engine down: OccupancyEngine.shutdown(), after
\* which no frame is processed
Shutdown ==
    LET r == shutdown([tr |-> trackers, ss |-> sessions, cv |-> client_visits],
                      places, Zones, now)
    IN  /\ life.engine = "up"
        /\ life' = [life EXCEPT !.engine = "down"]
        /\ trackers' = r.tr
        /\ sessions' = r.ss
        /\ client_visits' = r.cv
        /\ sample' = NoSample
        /\ UNCHANGED <<now, places, rois, obs, boots, twin>>
        /\ UNCHANGED <<env, netUp, remote_sessions, remote_visits, svc, uploads>>

\* The operator deletes the camera's zone in the ROI editor and draws the
\* other one, at a moment when no zone is occupied; the engine keeps the
\* tracker of the deleted zone
ReconfigureRois ==
    /\ \A z \in Zones : trackers[z].state = "VACANT"
    /\ \E z \in Zones \ rois : rois' = {z}
    /\ sample' = NoSample
    /\ UNCHANGED <<now, places, trackers, sessions, client_visits, obs, boots, twin>>
    /\ UNCHANGED syncvars

\* ------------------------------------------------------ sync actions
enginevars == <<now, places, rois, trackers, sample, obs, twin, life>>

\* The engine inserts a finalized Session row (save_session)
StoreSaveSession ==
    LET d == 1 IN
    /\ Len(sessions) + Len(client_visits) < MaxRows
    /\ sessions' = save_session(sessions, 1, Epoch, Epoch + d, d, EmployeeId)
    /\ UNCHANGED <<client_visits, boots, enginevars, syncvars>>

\* The engine inserts the checkpoint row of its session in progress
StoreSaveCheckpoint ==
    /\ Len(sessions) + Len(client_visits) < MaxRows
    /\ \A i \in DOMAIN sessions : sessions[i].is_checkpoint = 0
    /\ sessions' = save_session_checkpoint(sessions, 1, EmployeeId, Epoch, Epoch)
    /\ UNCHANGED <<client_visits, boots, enginevars, syncvars>>

\* The engine finalizes the checkpoint row of its session
StoreFinalizeCheckpoint ==
    LET d == 1 IN
    /\ \E i \in DOMAIN sessions :
         /\ sessions[i].is_checkpoint = 1
         /\ sessions' = finalize_session_checkpoint(sessions, i, Epoch + d, d)
    /\ UNCHANGED <<client_visits, boots, enginevars, syncvars>>

\* The engine inserts a finalized ClientVisit row (save_client_visit)
StoreSaveVisit ==
    LET d == 1 IN
    /\ Len(sessions) + Len(client_visits) < MaxRows
    /\ client_visits' = save_client_visit(client_visits, 2, EmployeeId, 0,
                                          Epoch, Epoch + d, d)
    /\ UNCHANGED <<sessions, boots, enginevars, syncvars>>

\* The remote becomes unreachable, or reachable again
NetChange ==
    /\ netUp' = ~netUp
    /\ UNCHANGED <<sessions, client_visits, boots, enginevars, uploads, env,
                   remote_sessions, remote_visits, svc>>

\* _service_loop: a pass is not due, time.sleep(1.0)
SyncTick ==
    /\ svc.pc = "idle"
    /\ svc.since_sync < svc.current_sync_interval
    /\ svc' = [svc EXCEPT !.since_sync = @ + 1]
    /\ UNCHANGED <<sessions, client_visits, boots, enginevars, uploads, env, netUp,
                   remote_sessions, remote_visits>>

\* _service_loop: now - last_sync >= _current_sync_interval, _sync_data
\* starts.  In mock mode it marks one batch of each table and returns True.
SyncBegin ==
    /\ svc.pc = "idle"
    /\ svc.since_sync >= svc.current_sync_interval
    /\ IF MockMode(env)
       THEN /\ sessions' = mark_as_synced(sessions,
                                          get_unsynced(sessions, BATCH_SIZE))
            /\ client_visits' = mark_as_synced(client_visits,
                                    get_unsynced(client_visits, BATCH_SIZE))
            /\ svc' = AfterSync(svc, TRUE, 0)
       ELSE /\ svc' = [svc EXCEPT !.pc = "sessions",
                                  !.batches_processed = 0,
                                  !.any_success = FALSE,
                                  !.data_found = FALSE]
            /\ UNCHANGED <<sessions, client_visits>>
    /\ UNCHANGED <<boots, enginevars, uploads, env, netUp, remote_sessions,
                   remote_visits>>

\* _sync_data returns `success` to _service_loop; a failure feeds the backoff
\* with a jitter drawn from 0..JITTER_MAX
Return(v, success) ==
    IF success
    THEN svc' = AfterSync(v, TRUE, 0)
    ELSE /\ v.consecutive_failures < MaxFailures
         /\ \E jitter \in 0..JITTER_MAX : svc' = AfterSync(v, FALSE, jitter)

\* _sync_data, end of one loop iteration
EndIteration(v) ==
    IF ~v.data_found
    THEN Return(v, TRUE)
    ELSE IF PassContinues(v.batches_processed + 1)
    THEN svc' = [v EXCEPT !.pc = "sessions",
                          !.batches_processed = @ + 1,
                          !.data_found = FALSE]
    ELSE Return([v EXCEPT !.batches_processed = @ + 1], v.any_success)

\* _sync_data step 1: read a batch of sessions and upload it in one remote
\* transaction
SyncSessions ==
    LET ids == get_unsynced(sessions, BATCH_SIZE)
    IN  /\ svc.pc = "sessions"
        /\ IF ids = {}
           THEN /\ svc' = [svc EXCEPT !.pc = "visits"]
                /\ UNCHANGED <<remote_sessions, uploads>>
           ELSE /\ remote_sessions' =
                      IF CloudSessionOk(env, netUp)
                      THEN UploadSessions(remote_sessions, sessions, ids)
                      ELSE remote_sessions
                /\ uploads' =
                      IF CloudSessionOk(env, netUp)
                      THEN [i \in DOMAIN uploads |->
                              IF i \in ids /\ uploads[i] < 2
                              THEN uploads[i] + 1 ELSE uploads[i]]
                      ELSE uploads
                /\ IF UploadResult(env, netUp)
                   THEN svc' = [svc EXCEPT !.pc = "mark_sessions",
                                           !.batch = ids,
                                           !.data_found = TRUE]
                   ELSE Return([svc EXCEPT !.data_found = TRUE],
                               svc.any_success)
        /\ life' = Requeried(life, "session")
        /\ UNCHANGED <<sessions, client_visits, boots, now, places, rois,
                       trackers, sample, obs, twin, env, netUp, remote_visits>>

\* _sync_data: db.mark_as_synced("session", ids) after the upload returned True
SyncMarkSessions ==
    /\ svc.pc = "mark_sessions"
    /\ sessions' = mark_as_synced(sessions, svc.batch)
    /\ svc' = [svc EXCEPT !.pc = "visits", !.batch = {}, !.any_success = TRUE]
    /\ UNCHANGED <<client_visits, boots, enginevars, uploads, env, netUp,
                   remote_sessions, remote_visits>>

\* _sync_data step 2: read a batch of client visits and upload it
SyncVisits ==
    LET ids == get_unsynced(client_visits, BATCH_SIZE)
    IN  /\ svc.pc = "visits"
        /\ IF ids = {}
           THEN /\ EndIteration(svc)
                /\ UNCHANGED remote_visits
           ELSE /\ remote_visits' =
                      IF CloudSessionOk(env, netUp)
                      THEN UploadVisits(remote_visits, client_visits, ids)
                      ELSE remote_visits
                /\ IF UploadResult(env, netUp)
                   THEN svc' = [svc EXCEPT !.pc = "mark_visits",
                                           !.batch = ids,
                                           !.data_found = TRUE]
                   ELSE Return([svc EXCEPT !.data_found = TRUE],
                               svc.any_success)
        /\ life' = Requeried(life, "client_visit")
        /\ UNCHANGED <<sessions, client_visits, boots, now, places, rois,
                       trackers, sample, obs, twin, uploads, env, netUp,
                       remote_sessions>>

\* _sync_data: db.mark_as_synced("client_visit", ids), then the iteration ends
SyncMarkVisits ==
    /\ svc.pc = "mark_visits"
    /\ client_visits' = mark_as_synced(client_visits, svc.batch)
    /\ EndIteration([svc EXCEPT !.batch = {}, !.any_success = TRUE])
    /\ UNCHANGED <<sessions, boots, enginevars, uploads, env, netUp, remote_sessions,
                   remote_visits>>

\* _service_loop: _sync_checkpoints is due (its own interval) and the remote
\* takes the mirror of the sessions in progress
SyncCheckpoints ==
    /\ svc.pc = "idle"
    /\ CloudSessionOk(env, netUp)
    /\ get_active_checkpoints(sessions) # {}
    /\ \E duration \in 0..1 :
         remote_sessions' = MirrorCheckpoints(remote_sessions, sessions,
                                get_active_checkpoints(sessions), duration)
    /\ UNCHANGED <<sessions, client_visits, boots, enginevars, uploads, env, netUp,
                   remote_visits, svc>>

\* The process stops ungracefully at any point of the sync and is started
\* again: the service is constructed anew, the local store recovers its
\* checkpoints, what the remote has committed stays
SyncCrashRestart ==
    /\ boots < MaxBoots
    /\ boots' = boots + 1
    /\ sessions' = finalize_stale_checkpoints(sessions)
    /\ client_visits' = finalize_stale_checkpoints(client_visits)
    /\ svc' = Svc0
    /\ UNCHANGED <<enginevars, uploads, env, netUp, remote_sessions, remote_visits>>

\* ------------------------------------------------------ stop actions
storevars == <<sessions, client_visits, remote_sessions, remote_visits, uploads>>

\* OccupancyEngine.shutdown as the store sees it: the checkpoint rows of the
\* sessions in progress are finalized
StoreShutdown ==
    LET d == 1
        RECURSIVE Finalize(_, _)
        Finalize(ss, ids) ==
            IF ids = {} THEN ss
            ELSE LET i == CHOOSE x \in ids : \A y \in ids : x <= y
                 IN  Finalize(finalize_session_checkpoint(ss, i, Epoch + d, d),
                              ids \ {i})
    IN  /\ life.engine = "up"
        /\ life' = [life EXCEPT !.engine = "down"]
        /\ sessions' = Finalize(sessions, get_active_checkpoints(sessions))
        /\ UNCHANGED <<now, places, rois, trackers, sample, obs, twin, boots,
                       client_visits, env, netUp, remote_sessions, remote_visits,
                       svc, uploads>>

\* stop(): is_running = False.  The loop thread is inside an iteration, or
\* asleep between two iterations and gone at its next look at is_running
StopBegin ==
    /\ life.stop = "running"
    /\ \E l \in (IF svc.pc = "idle" THEN {"draining", "exited"} ELSE {"draining"}) :
         life' = [life EXCEPT !.stop = StopNext("running"), !.loop = l]
    /\ UNCHANGED <<now, places, rois, trackers, sample, obs, twin, boots, env,
                   netUp, svc, storevars>>

\* stop(): thread.join(timeout=3.0) returns, the thread gone or not
StopJoin ==
    /\ life.stop = "join"
    /\ life' = [life EXCEPT !.stop = StopNext("join")]
    /\ UNCHANGED <<now, places, rois, trackers, sample, obs, twin, boots, env,
                   netUp, svc, storevars>>

\* stop(): self._sync_data(), its result ignored
StopFinalSync ==
    LET r == _sync_data([ss |-> sessions, cv |-> client_visits,
                         rs |-> remote_sessions, rv |-> remote_visits,
                         up |-> uploads], env, netUp, 0)
    IN  /\ life.stop = "final_sync"
        /\ life' = [life EXCEPT !.stop = StopNext("final_sync"),
                                !.done = Append(@, "sync")]
        /\ sessions' = r.ss
        /\ client_visits' = r.cv
        /\ remote_sessions' = r.rs
        /\ remote_visits' = r.rv
        /\ uploads' = r.up
        /\ UNCHANGED <<now, places, rois, trackers, sample, obs, twin, boots, env,
                       netUp, svc>>

\* stop(): self._close_cloud_checkpoints(); without a cloud session it
\* returns having done nothing
StopClose ==
    /\ life.stop = "close"
    /\ life' = [life EXCEPT !.stop = StopNext("close"),
                            !.done = Append(@, "close"),
                            !.closed = CloudSessionOk(env, netUp)]
    /\ remote_sessions' = IF CloudSessionOk(env, netUp)
                          THEN _close_cloud_checkpoints(remote_sessions, now)
                          ELSE remote_sessions
    /\ UNCHANGED <<now, places, rois, trackers, sample, obs, twin, boots, env,
                   netUp, svc, sessions, client_visits, remote_visits, uploads>>

\* stop(): self._cloud_engine.dispose(), and stop() returns
StopDispose ==
    /\ life.stop = "dispose"
    /\ life' = [life EXCEPT !.stop = StopNext("dispose"),
                            !.done = Append(@, "dispose")]
    /\ UNCHANGED <<now, places, rois, trackers, sample, obs, twin, boots, env,
                   netUp, svc, storevars>>

\* _service_loop: a pass is due and _sync_data runs from its first statement
\* to its return, the frame loop not running in between
SyncPass ==
    LET r == _sync_data([ss |-> sessions, cv |-> client_visits,
                         rs |-> remote_sessions, rv |-> remote_visits,
                         up |-> uploads], env, netUp, 0)
    IN  /\ svc.pc = "idle"
        /\ sessions' = r.ss
        /\ client_visits' = r.cv
        /\ remote_sessions' = r.rs
        /\ remote_visits' = r.rv
        /\ uploads' = r.up
        /\ UNCHANGED <<now, places, rois, trackers, sample, obs, twin, boots, env,
                       netUp, svc, life>>

\* The loop thread, is_running False, goes on with the _sync_data it is in
LoopDrain ==
    /\ life.loop = "draining"
    /\ \/ SyncSessions
       \/ SyncMarkSessions
       \/ SyncVisits
       \/ SyncMarkVisits

\* The loop thread, is_running False, ends its iteration with the
\* _sync_checkpoints that was due, then leaves the loop
LoopLastMirror ==
    /\ life.loop = "draining"
    /\ svc.pc = "idle"
    /\ CloudSessionOk(env, netUp)
    /\ get_active_checkpoints(sessions) # {}
    /\ \E duration \in 0..1 :
         remote_sessions' = MirrorCheckpoints(remote_sessions, sessions,
                                get_active_checkpoints(sessions), duration)
    /\ life' = [life EXCEPT !.loop = "exited"]
    /\ UNCHANGED <<now, places, rois, trackers, sample, obs, twin, boots, env,
                   netUp, svc, sessions, client_visits, remote_visits, uploads>>

\* The loop thread finds is_running False at the head of the loop
LoopExit ==
    /\ life.loop = "draining"
    /\ svc.pc = "idle"
    /\ life' = [life EXCEPT !.loop = "exited"]
    /\ UNCHANGED <<now, places, rois, trackers, sample, obs, twin, boots, env,
                   netUp, svc, storevars>>

\* The engine in normal operation
Next ==
    \/ Tick
    \/ \E z \in Zones, present \in BOOLEAN : Update(z, present)

Spec == Init /\ [][Next]_vars

\* The engine with ungraceful stops
NextCrash ==
    \/ Tick
    \/ \E z \in Zones, present \in BOOLEAN : Update(z, present)
    \/ CrashRestart

SpecCrash == Init /\ [][NextCrash]_vars

\* The engine until its shutdown: frames are processed while it is up
NextShutdown ==
    \/ life.engine = "up" /\ Tick
    \/ life.engine = "up" /\ \E z \in Zones, present \in BOOLEAN : Update(z, present)
    \/ Shutdown

SpecShutdown == Init /\ [][NextShutdown]_vars

\* Two engines on the same presence sequence, with and without checkpoints
NextTwin ==
    \/ Tick
    \/ \E z \in Zones, present \in BOOLEAN : UpdateBoth(z, present)

SpecTwin == Init /\ [][NextTwin]_vars

\* The sync service, the engine's store writes, the network and crashes
DataSyncStep ==
    \/ SyncTick
    \/ SyncBegin
    \/ SyncSessions
    \/ SyncMarkSessions
    \/ SyncVisits
    \/ SyncMarkVisits

ServiceStep ==
    \/ DataSyncStep
    \/ SyncCheckpoints

NextSync ==
    \/ StoreSaveSession
    \/ StoreSaveCheckpoint
    \/ StoreFinalizeCheckpoint
    \/ StoreSaveVisit
    \/ NetChange
    \/ ServiceStep
    \/ SyncCrashRestart

SpecSync == InitSync /\ [][NextSync]_vars

\* The service loop keeps running: every step of it that is enabled is
\* eventually taken (the thread is scheduled, sleep returns)
NextSyncLive ==
    \/ StoreSaveSession
    \/ StoreSaveCheckpoint
    \/ StoreFinalizeCheckpoint
    \/ StoreSaveVisit
    \/ NetChange
    \/ DataSyncStep

SpecSyncLive == InitSync /\ [][NextSyncLive]_vars /\ WF_vars(DataSyncStep)

\* The whole program: the frame loop with the ROI editor, the sync loop
\* thread next to it, and the engine's shutdown
NextRun ==
    \/ life.engine = "up" /\ Tick
    \/ life.engine = "up" /\ \E z \in Zones, present \in BOOLEAN : Update(z, present)
    \/ life.engine = "up" /\ ReconfigureRois
    \/ Shutdown
    \/ SyncPass

SpecRun == Init /\ [][NextRun]_vars

\* The sync service from its start to the return of stop(), next to the
\* engine's store writes and its shutdown; no caller orders the two.  The
\* network is as it was at the start until stop() is called and changes
\* freely while stop() runs.
NextStop ==
    \/ life.engine = "up" /\ StoreSaveSession
    \/ life.engine = "up" /\ StoreSaveCheckpoint
    \/ life.engine = "up" /\ StoreFinalizeCheckpoint
    \/ life.engine = "up" /\ StoreSaveVisit
    \/ StoreShutdown
    \/ life.stop # "running" /\ NetChange
    \/ life.loop = "running" /\ ServiceStep
    \/ LoopDrain
    \/ LoopLastMirror
    \/ LoopExit
    \/ StopBegin
    \/ StopJoin
    \/ StopFinalSync
    \/ StopClose
    \/ StopDispose

\* The service as deployed with a remote: CLOUD_API_BASE left at its
\* localhost default, DB_DSN set
InitStop ==
    /\ InitSync
    /\ ~env.CLOUD_API_URL
    /\ env.DB_DSN

SpecStop == InitStop /\ [][NextStop]_vars

\* ------------------------------------------------ a remote that rejects
\* Mutant: the error of the rejected statement is swallowed, the transaction
\* commits what it executed and the upload reports success
RejectedUpload_Committed(remote, attempted) == [remote |-> attempted, ok |-> TRUE]

\* _upload_to_cloud_db when a statement of the batch raises (a referenced
\* place or employee is missing at the remote): the except branch rolls the
\* transaction back, so the remote keeps the rows it had before the batch
\* (`attempted` is lost), and returns False
RejectedUpload(remote, attempted) == [remote |-> remote, ok |-> FALSE]

\* _sync_data step 1 with a remote that rejects the record k of the batch:
\* the statements of the records before k were executed in the transaction
RejectSessions ==
    LET ids == get_unsynced(sessions, BATCH_SIZE)
    IN  /\ svc.pc = "sessions"
        /\ ids # {}
        /\ CloudSessionOk(env, netUp)
        /\ \E k \in ids :
             LET r == RejectedUpload(remote_sessions,
                          UploadSessions(remote_sessions, sessions,
                                         {i \in ids : i < k}))
             IN  /\ remote_sessions' = r.remote
                 /\ IF r.ok
                    THEN svc' = [svc EXCEPT !.pc = "mark_sessions",
                                            !.batch = ids,
                                            !.data_found = TRUE]
                    ELSE Return([svc EXCEPT !.data_found = TRUE],
                                svc.any_success)
                 /\ life' = [life EXCEPT !.rejected =
                               [type |-> "session", ids |-> ids]]
        /\ UNCHANGED <<sessions, client_visits, boots, now, places, rois,
                       trackers, sample, obs, twin, uploads, env, netUp,
                       remote_visits>>

\* _sync_data step 2 with a remote that rejects the record k of the batch
RejectVisits ==
    LET ids == get_unsynced(client_visits, BATCH_SIZE)
    IN  /\ svc.pc = "visits"
        /\ ids # {}
        /\ CloudSessionOk(env, netUp)
        /\ \E k \in ids :
             LET r == RejectedUpload(remote_visits,
                          UploadVisits(remote_visits, client_visits,
                                       {i \in ids : i < k}))
             IN  /\ remote_visits' = r.remote
                 /\ IF r.ok
                    THEN svc' = [svc EXCEPT !.pc = "mark_visits",
                                            !.batch = ids,
                                            !.data_found = TRUE]
                    ELSE Return([svc EXCEPT !.data_found = TRUE],
                                svc.any_success)
                 /\ life' = [life EXCEPT !.rejected =
                               [type |-> "client_visit", ids |-> ids]]
        /\ UNCHANGED <<sessions, client_visits, boots, now, places, rois,
                       trackers, sample, obs, twin, uploads, env, netUp,
                       remote_sessions>>

\* The sync service in real mode against a remote that may reject a batch,
\* next to a store the engine writes to
InitReject == InitSync /\ env.DB_DSN

NextReject ==
    \/ StoreSaveSession
    \/ StoreSaveCheckpoint
    \/ StoreFinalizeCheckpoint
    \/ StoreSaveVisit
    \/ NetChange
    \/ DataSyncStep
    \/ RejectSessions
    \/ RejectVisits

SpecReject == InitReject /\ [][NextReject]_vars

\* ------------------------------------------------ a backlog after an outage
\* n finalized Session rows written while the remote could not be reached
RECURSIVE SavedSessions(_)
SavedSessions(n) ==
    IF n = 0 THEN <<>>
    ELSE save_session(SavedSessions(n - 1), 1, Epoch, Epoch + 1, 1, EmployeeId)

\* n finalized ClientVisit rows written while the remote could not be reached
RECURSIVE SavedVisits(_)
SavedVisits(n) ==
    IF n = 0 THEN <<>>
    ELSE save_client_visit(SavedVisits(n - 1), 2, EmployeeId, 0,
                           Epoch, Epoch + 1, 1)

\* The service is constructed next to a store that holds a backlog of up to
\* MaxBacklog unsynced rows of each kind; the remote holds none of them
InitBacklog ==
    /\ now = Epoch
    /\ places = [z \in Zones |->
                   IF z = 1 THEN PlaceRow("employee", EmployeeId, None)
                            ELSE PlaceRow("client", None, 1)]
    /\ rois = {}
    /\ trackers = [z \in Zones |-> Tracker0]
    /\ \E n \in 0..MaxBacklog : sessions = SavedSessions(n)
    /\ \E n \in 0..MaxBacklog : client_visits = SavedVisits(n)
    /\ sample = NoSample
    /\ obs = [z \in Zones |-> Obs0]
    /\ boots = 0
    /\ twin = Twin0
    /\ env \in [CLOUD_API_URL : BOOLEAN, DB_DSN : BOOLEAN]
    /\ netUp \in BOOLEAN
    /\ remote_sessions = <<>>
    /\ remote_visits = <<>>
    /\ svc = Svc0
    /\ uploads = [i \in 1..MaxRows |-> 0]
    /\ life = Life0

\* Passes of _sync_data over the backlog, the remote coming and going
NextBacklog ==
    \/ SyncPass
    \/ NetChange

SpecBacklog == InitBacklog /\ [][NextBacklog]_vars

\* ------------------------------------- the mirror next to the final sync
\* _sync_checkpoints in the loop thread, first half: db.get_active_checkpoints()
\* returns rows and the thread goes on to open its cloud session
MirrorRead ==
    /\ life.loop \in {"running", "draining"}
    /\ life.mirror.pc # "read"
    /\ ~MockMode(env)
    /\ get_active_checkpoints(sessions) # {}
    /\ life' = [life EXCEPT !.mirror =
                  [pc |-> "read", ids |-> get_active_checkpoints(sessions),
                   late |-> {}]]
    /\ UNCHANGED <<now, places, rois, trackers, sample, obs, twin, boots, env,
                   netUp, svc, storevars>>

\* _sync_checkpoints, second half: with a cloud session the upserts of the
\* rows read are executed and committed (place_id, employee_id and start_time
\* of a local row never change, duration is now - start_time); without one
\* the function returns.  A loop thread whose is_running is False then
\* leaves the loop.
MirrorWrite ==
    /\ life.mirror.pc = "read"
    /\ \E duration \in 0..1 :
         remote_sessions' =
             IF CloudSessionOk(env, netUp)
             THEN MirrorCheckpoints(remote_sessions, sessions,
                                    life.mirror.ids, duration)
             ELSE remote_sessions
    /\ life' = [life EXCEPT
                  !.mirror = IF CloudSessionOk(env, netUp)
                             THEN [pc |-> "written", ids |-> life.mirror.ids,
                                   late |-> {i \in life.mirror.ids :
                                               /\ uploads[i] >= 1
                                               /\ \E k \in DOMAIN remote_sessions :
                                                    /\ remote_sessions[k].local_id = i
                                                    /\ remote_sessions[k].is_checkpoint = 0}]
                             ELSE NoMirror,
                  !.loop = IF @ = "draining" THEN "exited" ELSE @]
    /\ UNCHANGED <<now, places, rois, trackers, sample, obs, twin, boots, env,
                   netUp, svc, sessions, client_visits, remote_visits, uploads>>

\* The loop thread runs _sync_data and _sync_checkpoints in turn; the caller
\* of stop() runs the final _sync_data and the force-close in its own thread,
\* whether or not the loop thread has left _sync_checkpoints
NextMirror ==
    \/ life.engine = "up" /\ StoreSaveSession
    \/ life.engine = "up" /\ StoreSaveCheckpoint
    \/ life.engine = "up" /\ StoreFinalizeCheckpoint
    \/ StoreShutdown
    \/ NetChange
    \/ life.loop = "running" /\ life.mirror.pc # "read" /\ SyncPass
    \/ MirrorRead
    \/ MirrorWrite
    \/ life.mirror.pc # "read" /\ LoopExit
    \/ StopBegin /\ (life.mirror.pc = "read" => life'.loop = "draining")
    \/ StopJoin
    \/ StopFinalSync
    \/ StopClose
    \/ StopDispose

SpecMirror == InitStop /\ [][NextMirror]_vars

\* ------------------------------------------- two desks of one employee
\* The places table with two employee zones, each with or without the
\* employee assigned
DeskConfigs ==
    {[z \in Zones |->
        PlaceRow("employee", IF z = 1 THEN e1 ELSE e2, None)] :
     e1 \in {None, EmployeeId}, e2 \in {None, EmployeeId}}

InitDesks ==
    /\ now = Epoch
    /\ places \in DeskConfigs
    /\ rois \in {{1}, {2}}
    /\ trackers = [z \in Zones |-> Tracker0]
    /\ sessions = <<>>
    /\ client_visits = <<>>
    /\ sample = NoSample
    /\ obs = [z \in Zones |-> Obs0]
    /\ boots = 0
    /\ twin = Twin0
    /\ env = [CLOUD_API_URL |-> FALSE, DB_DSN |-> TRUE]
    /\ netUp = TRUE
    /\ remote_sessions = <<>>
    /\ remote_visits = <<>>
    /\ svc = Svc0
    /\ uploads = [i \in 1..MaxRows |-> 0]
    /\ life = Life0

\* The frame loop and the ROI editor: the camera's zone is one desk, then
\* the other
NextDesks ==
    \/ Tick
    \/ \E z \in Zones, present \in BOOLEAN : Update(z, present)
    \/ ReconfigureRois

SpecDesks == InitDesks /\ [][NextDesks]_vars

\* ------------------------------------ the frame loop next to the service
\* One employee desk with its employee, in mock or in real mode, the remote
\* reachable or not
InitFrames ==
    /\ now = Epoch
    /\ places = [z \in Zones |->
                   IF z = 1 THEN PlaceRow("employee", EmployeeId, None)
                            ELSE PlaceRow("client", None, 1)]
    /\ rois = {1}
    /\ trackers = [z \in Zones |-> Tracker0]
    /\ sessions = <<>>
    /\ client_visits = <<>>
    /\ sample = NoSample
    /\ obs = [z \in Zones |-> Obs0]
    /\ boots = 0
    /\ twin = Twin0
    /\ env \in [CLOUD_API_URL : {FALSE}, DB_DSN : BOOLEAN]
    /\ netUp \in BOOLEAN
    /\ remote_sessions = <<>>
    /\ remote_visits = <<>>
    /\ svc = Svc0
    /\ uploads = [i \in 1..MaxRows |-> 0]
    /\ life = Life0

\* The frame loop takes samples while the loop thread of the service runs
\* its passes and its mirrors
NextFrames ==
    \/ Tick
    \/ \E z \in Zones, present \in BOOLEAN : Update(z, present)
    \/ NetChange
    \/ SyncPass
    \/ SyncCheckpoints

SpecFrames == InitFrames /\ [][NextFrames]_vars

\* A session confirmed a moment ago on a system whose entry threshold is
\* configured below the shutdown noise floor (ENTRY_THRESHOLD and
\* CLIENT_ENTRY_THRESHOLD are read from the environment, config.py 61-66):
\* update() has just set the tracker to OCCUPIED with the timer started at
\* the entry time, which is the current time
ShortSession(time) ==
    [Tracker0 EXCEPT !.state = "OCCUPIED",
                     !.entry_start_time = time,
                     !.timer_start_time = time,
                     !.session_start = time,
                     !.last_checkpoint_time = time]

\* The engine with one such session in progress on the camera's zone
InitFloor ==
    /\ now = Epoch
    /\ places \in PlaceConfigs
    /\ rois \in {{1}, {2}}
    /\ rois = {1} => places[2].linked_employee_id = 1
    /\ trackers = [z \in Zones |-> IF z \in rois THEN ShortSession(Epoch) ELSE Tracker0]
    /\ sessions = <<>>
    /\ client_visits = <<>>
    /\ sample = NoSample
    /\ obs = [z \in Zones |-> Obs0]
    /\ boots = 0
    /\ twin = Twin0
    /\ env = [CLOUD_API_URL |-> FALSE, DB_DSN |-> TRUE]
    /\ netUp = TRUE
    /\ remote_sessions = <<>>
    /\ remote_visits = <<>>
    /\ svc = Svc0
    /\ uploads = [i \in 1..MaxRows |-> 0]
    /\ life = Life0

\* The session goes on (update() in OCCUPIED and CHECKING_EXIT reads no entry
\* threshold) until the engine is shut down
NextFloor ==
    \/ life.engine = "up" /\ Tick
    \/ /\ life.engine = "up"
       /\ \E z \in Zones, present \in BOOLEAN :
            /\ trackers[z].state \in {"OCCUPIED", "CHECKING_EXIT"}
            /\ Update(z, present)
    \/ Shutdown

SpecFloor == InitFloor /\ [][NextFloor]_vars

\* Database.update_roi_link
update_roi_link(pl, place_id, linked_employee_id) ==
    [pl EXCEPT ![place_id].linked_employee_id = linked_employee_id]

\* The operator links a client zone to another id in the ROI editor (keys
\* 0-9 and l); the editor accepts every configured id, whether or not the
\* place of that id has an employee assigned
RelinkRoi ==
    /\ \E z \in Zones, target_id \in Zones :
         /\ places[z].zone_type = "client"
         /\ places[z].linked_employee_id # target_id
         /\ places' = update_roi_link(places, z, target_id)
    /\ sample' = NoSample
    /\ UNCHANGED <<now, rois, trackers, sessions, client_visits, obs, boots, twin>>
    /\ UNCHANGED syncvars

\* update() completes the session of zone z and the write of
\* _complete_session raises (a locked or full local store): the exception
\* is caught and printed, the tables are as before, the tracker is reset
CompleteDbError(z) ==
    LET r == EngineStep(trackers, sessions, client_visits, places, z, FALSE,
                        now, CHECKPOINT_INTERVAL)
    IN  /\ z \in rois
        /\ trackers[z].state = "CHECKING_EXIT"
        /\ r.t.state = "VACANT"
        /\ r.ss # sessions \/ r.cv # client_visits
        /\ trackers' = [trackers EXCEPT ![z] = r.t]
        /\ sample' = [zone |-> z, present |-> FALSE]
        /\ obs' = [obs EXCEPT ![z] =
                     [Obs0 EXCEPT !.completed =
                        \/ obs[z].completed
                        \/ AbsenceCompleted(obs[z], FALSE, now,
                                exit_thresh(places[z].zone_type))]]
        /\ UNCHANGED <<now, places, rois, sessions, client_visits, boots, twin>>
        /\ UNCHANGED syncvars

\* The engine on the frame loop, with the ROI editor open and a local store
\* whose writes can fail
NextRelink ==
    \/ Tick
    \/ \E z \in Zones, present \in BOOLEAN : Update(z, present)
    \/ RelinkRoi
    \/ \E z \in Zones : CompleteDbError(z)

SpecRelink == Init /\ [][NextRelink]_vars

\* shutdown() is called on an engine that has been shut down before: the
\* engine holds no flag for it, the trackers are as the first call left them
\* (calls are taken while the tables hold at most MaxRows rows)
ShutdownAgain ==
    LET r == shutdown([tr |-> trackers, ss |-> sessions, cv |-> client_visits],
                      places, Zones, now)
    IN  /\ life.engine = "down"
        /\ Len(sessions) + Len(client_visits) <= MaxRows
        /\ trackers' = r.tr
        /\ sessions' = r.ss
        /\ client_visits' = r.cv
        /\ sample' = NoSample
        /\ UNCHANGED <<now, places, rois, obs, boots, twin>>
        /\ UNCHANGED syncvars

\* The engine's methods in any order: update() and shutdown() before a
\* shutdown() and, within the same clock reading, after it
NextAgain ==
    \/ life.engine = "up" /\ Tick
    \/ \E z \in Zones, present \in BOOLEAN : Update(z, present)
    \/ Shutdown
    \/ ShutdownAgain

\* One employee zone with its employee and one client zone linked to it
InitAgain ==
    /\ Init
    /\ places = [z \in Zones |->
                   IF z = 1 THEN PlaceRow("employee", EmployeeId, None)
                            ELSE PlaceRow("client", None, 1)]

SpecAgain == InitAgain /\ [][NextAgain]_vars

\* ------------------------------------------------ a record the remote rejects
\* _sync_data step 1 when the batch holds the record the remote rejects at
\* every upload (its place or employee is missing there): the transaction of
\* the whole batch is rolled back and _sync_data returns any_success.  The
\* failure counter is held at MaxFailures; the interval is at its cap from
\* the second failure on.
PoisonSessions ==
    LET ids == get_unsynced(sessions, BATCH_SIZE)
        r == RejectedUpload(remote_sessions,
                 UploadSessions(remote_sessions, sessions,
                                {i \in ids : i < life.poison}))
        v == [svc EXCEPT !.data_found = TRUE,
                         !.consecutive_failures = Min(@, MaxFailures - 1)]
    IN  /\ svc.pc = "sessions"
        /\ life.poison \in ids
        /\ CloudSessionOk(env, netUp)
        /\ remote_sessions' = r.remote
        /\ IF svc.any_success
           THEN svc' = AfterSync(v, TRUE, 0)
           ELSE \E jitter \in 0..JITTER_MAX : svc' = AfterSync(v, FALSE, jitter)
        /\ UNCHANGED <<sessions, client_visits, boots, enginevars, uploads, env,
                       netUp, remote_visits>>

\* A reachable remote in real mode, finalized rows waiting in both tables,
\* one of the Session rows being the one the remote rejects
InitPoison ==
    /\ now = Epoch
    /\ places = [z \in Zones |->
                   IF z = 1 THEN PlaceRow("employee", EmployeeId, None)
                            ELSE PlaceRow("client", None, 1)]
    /\ rois = {}
    /\ trackers = [z \in Zones |-> Tracker0]
    /\ sessions = SavedSessions(MaxRows)
    /\ client_visits \in {SavedVisits(n) : n \in 0..MaxRows}
    /\ sample = NoSample
    /\ obs = [z \in Zones |-> Obs0]
    /\ boots = 0
    /\ twin = Twin0
    /\ env = [CLOUD_API_URL |-> FALSE, DB_DSN |-> TRUE]
    /\ netUp = TRUE
    /\ remote_sessions = <<>>
    /\ remote_visits = <<>>
    /\ svc = Svc0
    /\ uploads = [i \in 1..MaxRows |-> 0]
    /\ \E k \in 1..MaxRows : life = [Life0 EXCEPT !.poison = k]

\* The service loop; the remote stays reachable
NextPoison ==
    \/ SyncTick
    \/ SyncBegin
    \/ PoisonSessions
    \/ life.poison \notin get_unsynced(sessions, BATCH_SIZE) /\ SyncSessions
    \/ SyncMarkSessions
    \/ SyncVisits
    \/ SyncMarkVisits

\* The loop thread keeps running: a step of it that stays enabled is taken
SpecPoison == InitPoison /\ [][NextPoison]_vars /\ WF_vars(NextPoison)

\* ------------------------------------------------ start() and stop()
\* CloudSyncService.__init__: is_running False, thread None.  loops[t] is the
\* position of the t-th thread start() created: "none" (not created), "head"
\* (at `while self.is_running`), "body" (inside an iteration, its sleep
\* included) or "gone" (_service_loop returned); seen[t] is the number of
\* start() calls made when the thread last found is_running True (history)
Threads0 ==
    [is_running |-> FALSE, thread |-> None, caller |-> "idle", starts |-> 0,
     loops |-> [t \in 1..MaxThreads |-> "none"],
     seen |-> [t \in 1..MaxThreads |-> 0]]

InitStart ==
    /\ now = Epoch
    /\ places = [z \in Zones |->
                   IF z = 1 THEN PlaceRow("employee", EmployeeId, None)
                            ELSE PlaceRow("client", None, 1)]
    /\ rois = {}
    /\ trackers = [z \in Zones |-> Tracker0]
    /\ sessions = <<>>
    /\ client_visits = <<>>
    /\ sample = NoSample
    /\ obs = [z \in Zones |-> Obs0]
    /\ boots = 0
    /\ twin = Twin0
    /\ env = [CLOUD_API_URL |-> FALSE, DB_DSN |-> TRUE]
    /\ netUp \in BOOLEAN
    /\ remote_sessions = <<>>
    /\ remote_visits = <<>>
    /\ svc = Svc0
    /\ uploads = [i \in 1..MaxRows |-> 0]
    /\ life = [Life0 EXCEPT !.threads = Threads0]

\* start(): returns when is_running is True; otherwise sets it and starts a
\* new thread on _service_loop
start ==
    LET th == life.threads
        t == th.starts + 1
    IN  /\ th.caller = "idle"
        /\ ~th.is_running
        /\ t <= MaxThreads
        /\ life' = [life EXCEPT !.threads =
                      [th EXCEPT !.is_running = TRUE, !.thread = t, !.starts = t,
                                 !.loops[t] = "head"]]
        /\ UNCHANGED <<now, places, rois, trackers, sample, obs, twin, boots, env,
                       netUp, svc, storevars>>

\* stop(): returns when is_running is False; otherwise clears it and goes to
\* the join
stop ==
    LET th == life.threads
    IN  /\ th.caller = "idle"
        /\ th.is_running
        /\ life' = [life EXCEPT !.threads =
                      [th EXCEPT !.is_running = FALSE, !.caller = "join"]]
        /\ UNCHANGED <<now, places, rois, trackers, sample, obs, twin, boots, env,
                       netUp, svc, storevars>>

\* stop(): thread.join(timeout=3.0) returns, because the thread has ended or
\* because the three seconds are over while it is still in its iteration
stop_join ==
    LET th == life.threads
    IN  /\ th.caller = "join"
        /\ th.loops[th.thread] \in {"gone", "body"}
        /\ life' = [life EXCEPT !.threads = [th EXCEPT !.caller = "final"]]
        /\ UNCHANGED <<now, places, rois, trackers, sample, obs, twin, boots, env,
                       netUp, svc, storevars>>

\* stop(): the final _sync_data, _close_cloud_checkpoints and the dispose;
\* stop() returns
stop_final ==
    LET th == life.threads
        r == _sync_data([ss |-> sessions, cv |-> client_visits,
                         rs |-> remote_sessions, rv |-> remote_visits,
                         up |-> uploads], env, netUp, 0)
    IN  /\ th.caller = "final"
        /\ life' = [life EXCEPT !.threads = [th EXCEPT !.caller = "idle"]]
        /\ sessions' = r.ss
        /\ client_visits' = r.cv
        /\ remote_sessions' = IF CloudSessionOk(env, netUp)
                              THEN _close_cloud_checkpoints(r.rs, now)
                              ELSE r.rs
        /\ remote_visits' = r.rv
        /\ uploads' = r.up
        /\ UNCHANGED <<now, places, rois, trackers, sample, obs, twin, boots, env,
                       netUp, svc>>

\* _service_loop of thread t: `while self.is_running`
loop_head(t) ==
    LET th == life.threads
    IN  /\ th.loops[t] = "head"
        /\ life' = [life EXCEPT !.threads =
                      IF th.is_running
                      THEN [th EXCEPT !.loops[t] = "body", !.seen[t] = th.starts]
                      ELSE [th EXCEPT !.loops[t] = "gone"]]
        /\ UNCHANGED <<now, places, rois, trackers, sample, obs, twin, boots, env,
                       netUp, svc, storevars>>

\* _service_loop of thread t: one iteration, with the _sync_data that is due,
\* up to the end of its sleep
loop_body(t) ==
    LET th == life.threads
        r == _sync_data([ss |-> sessions, cv |-> client_visits,
                         rs |-> remote_sessions, rv |-> remote_visits,
                         up |-> uploads], env, netUp, 0)
    IN  /\ th.loops[t] = "body"
        /\ life' = [life EXCEPT !.threads = [th EXCEPT !.loops[t] = "head"]]
        /\ sessions' = r.ss
        /\ client_visits' = r.cv
        /\ remote_sessions' = r.rs
        /\ remote_visits' = r.rv
        /\ uploads' = r.up
        /\ UNCHANGED <<now, places, rois, trackers, sample, obs, twin, boots, env,
                       netUp, svc>>

NextStart ==
    \/ start
    \/ stop
    \/ stop_join
    \/ stop_final
    \/ \E t \in 1..MaxThreads : loop_head(t)
    \/ \E t \in 1..MaxThreads : loop_body(t)
    \/ life.threads.starts > 0 /\ StoreSaveSession
    \/ NetChange

SpecStart == InitStart /\ [][NextStart]_vars

\* ================================================================== claims
\* A step that processes the sample (z, p)
SampleStep(z, p) ==
    /\ sample' = [zone |-> z, present |-> p]
    /\ sample' # sample

TablesUnchanged ==
    /\ sessions' = sessions
    /\ client_visits' = client_visits

\* C1: a tracker becomes OCCUPIED from VACANT/CHECKING_ENTRY only on a present
\* sample, when every sample since it left VACANT was present and at least
\* entry_threshold has elapsed since the first of them; an absent sample while
\* CHECKING_ENTRY returns the tracker to VACANT and leaves both tables as
\* they were.
C1_Debounce ==
    [][\A z \in Zones :
        /\ (/\ trackers[z].state \in {"VACANT", "CHECKING_ENTRY"}
            /\ trackers'[z].state = "OCCUPIED")
           => /\ obs[z].first # None
              /\ obs'[z].lastP
              /\ ~obs'[z].gap
              /\ now' - obs[z].first >= entry_thresh(places[z].zone_type)
        /\ (trackers[z].state = "CHECKING_ENTRY" /\ SampleStep(z, FALSE))
           => /\ trackers'[z].state = "VACANT"
              /\ TablesUnchanged
      ]_vars

\* C1 witness: an entry has just been confirmed, exactly entry_threshold after
\* the first of an unbroken run of present samples
C1_Witness ==
    \E z \in Zones :
        /\ trackers[z].state = "OCCUPIED"
        /\ sample = [zone |-> z, present |-> TRUE]
        /\ ~obs[z].gap
        /\ now - obs[z].first = entry_thresh(places[z].zone_type)
        /\ trackers[z].last_checkpoint_time = now

\* C2: during CHECKING_EXIT a present sample takes the tracker back to
\* OCCUPIED with the same session_start, accumulated_time and checkpoint
\* record, and the tracker leaves CHECKING_EXIT for VACANT only when the
\* absence has lasted at least exit_threshold; before that no row is
\* finalized or inserted.
C2_GraceResume ==
    [][\A z \in Zones :
        trackers[z].state = "CHECKING_EXIT" =>
          /\ SampleStep(z, TRUE) =>
               /\ trackers'[z].state = "OCCUPIED"
               /\ trackers'[z].session_start = trackers[z].session_start
               /\ trackers'[z].accumulated_time = trackers[z].accumulated_time
               /\ trackers'[z].checkpoint_db_id = trackers[z].checkpoint_db_id
               /\ TablesUnchanged
          /\ now' - obs[z].absentSince < exit_thresh(places[z].zone_type) =>
               /\ trackers'[z].state # "VACANT"
               /\ TablesUnchanged
      ]_vars

\* C2 witness: the person has just returned within the grace period to a
\* session that has a checkpoint record
C2_Witness ==
    \E z \in Zones :
        /\ trackers[z].state = "OCCUPIED"
        /\ sample = [zone |-> z, present |-> TRUE]
        /\ obs[z].gap
        /\ trackers[z].timer_start_time = now
        /\ trackers[z].accumulated_time > 0
        /\ trackers[z].checkpoint_db_id # None

C4_DurationIsOccupiedTime ==
    [][\A z \in Zones :
        (trackers[z].state = "CHECKING_EXIT" /\ trackers'[z].state = "VACANT")
        => /\ \A i \in RowsSince(sessions', z, obs[z].base_s) :
                sessions'[i].duration_seconds = obs[z].occ
           /\ \A i \in RowsSince(client_visits', z, obs[z].base_c) :
                client_visits'[i].duration_seconds = obs[z].occ
      ]_vars

\* C4 witness: a finalized row whose duration is shorter than the span from
\* its start to the beginning of the final grace period, so that a pause
\* was left out of it
C4_Witness ==
    \E i \in DOMAIN sessions :
        /\ sessions[i].is_checkpoint = 0
        /\ sessions[i].duration_seconds > ENTRY_THRESHOLD
        /\ sessions[i].end_time = now
        /\ sessions[i].end_time - sessions[i].start_time
             > sessions[i].duration_seconds + EXIT_THRESHOLD
        /\ trackers[sessions[i].place_id] = Tracker0

Finalized(rows) == SelectSeq(rows, LAMBDA r : r.is_checkpoint = 0)

Durations(rows) == [i \in DOMAIN rows |-> rows[i].duration_seconds]

\* C5: fed the same presence sequence, the engine with checkpoints and the
\* engine whose checkpoint interval is longer than any session finalize the
\* same durations, and each finalized duration is the tracker's
\* accumulated_time at the finalize instant.
C5_CheckpointEquivalence ==
    /\ [](/\ Durations(Finalized(sessions)) = Durations(twin.sessions)
          /\ Durations(Finalized(client_visits)) = Durations(twin.client_visits))
    /\ [][\A z \in Zones :
            (trackers[z].state = "CHECKING_EXIT" /\ trackers'[z].state = "VACANT")
            => /\ \A i \in RowsSince(sessions', z, obs[z].base_s) :
                    sessions'[i].duration_seconds = trackers[z].accumulated_time
               /\ \A i \in RowsSince(client_visits', z, obs[z].base_c) :
                    client_visits'[i].duration_seconds
                        = trackers[z].accumulated_time
         ]_vars

\* C5 witness: a session that crossed two checkpoint writes has just been
\* finalized in both engines
C5_Witness ==
    \E z \in Zones :
        /\ twin.ticks >= 2
        /\ trackers[z] = Tracker0
        /\ sample = [zone |-> z, present |-> FALSE]
        /\ Len(twin.sessions) + Len(twin.client_visits) >= 1
        /\ Len(Finalized(sessions)) + Len(Finalized(client_visits)) >= 1

\* Every row of the table after the step is the row before it, but for
\* is_checkpoint, which is 0
RecoveredFrom(rows, rows2) ==
    /\ Len(rows2) = Len(rows)
    /\ \A i \in DOMAIN rows : rows2[i] = [rows[i] EXCEPT !.is_checkpoint = 0]

StaysFinalized(rows, rows2) ==
    \A i \in DOMAIN rows :
        rows[i].is_checkpoint = 0 =>
            i \in DOMAIN rows2 /\ rows2[i].is_checkpoint = 0

\* C9: the restart after an ungraceful stop leaves every row of both tables
\* at is_checkpoint = 0 with every other field, duration_seconds included, as
\* it was last saved; and no step ever takes a row from is_checkpoint = 0
\* back to is_checkpoint = 1.
C9_CrashRecovery ==
    [][/\ boots' # boots =>
            /\ RecoveredFrom(sessions, sessions')
            /\ RecoveredFrom(client_visits, client_visits')
       /\ StaysFinalized(sessions, sessions')
       /\ StaysFinalized(client_visits, client_visits')
      ]_vars

\* C9 witness: after a restart, a Session row that was a checkpoint (its
\* end time is a checkpoint instant in the middle of the occupancy, not the
\* end of a grace period) is finalized with the duration of that checkpoint
C9_Witness ==
    /\ boots = 1
    /\ \E i \in DOMAIN sessions :
        /\ sessions[i].is_checkpoint = 0
        /\ sessions[i].duration_seconds > 0
        /\ sessions[i].end_time - sessions[i].start_time
             < sessions[i].duration_seconds + EXIT_THRESHOLD

\* C10: at an ungraceful stop of a zone whose tracker is OCCUPIED, the
\* duration kept in the session's row after recovery (0 when it has no row)
\* is at most one checkpoint interval short of the occupied time at the stop.
C10_BoundedLoss ==
    [][boots' # boots =>
        \A z \in Zones :
            trackers[z].state = "OCCUPIED" =>
                Occupied(obs[z], now)
                  - (SumDuration(sessions',
                                 RowsSince(sessions', z, obs[z].base_s))
                     + SumDuration(client_visits',
                                   RowsSince(client_visits', z, obs[z].base_c)))
                <= CHECKPOINT_INTERVAL
      ]_vars


\* ------------------------------------------------------------------ C6
\* The remote holds the finalized row of local id `id`: an upsert of
\* (BRANCH_ID, id) by _upload_to_cloud_db has been committed
Committed(remote, id) ==
    \E k \in DOMAIN remote :
        /\ remote[k].branch_id = BRANCH_ID
        /\ remote[k].local_id = id
        /\ remote[k].is_checkpoint = 0

\* C6: outside mock mode a local Session or ClientVisit row has is_synced = 1
\* only if the remote upsert of its (branch_id, local_id) has been committed;
\* so no failure and no crash before that commit ever leaves a row marked.
C6_SyncedOnlyAfterCommit ==
    ~MockMode(env) =>
        /\ \A i \in DOMAIN sessions :
              sessions[i].is_synced = 1 => Committed(remote_sessions, i)
        /\ \A i \in DOMAIN client_visits :
              client_visits[i].is_synced = 1 => Committed(remote_visits, i)

\* A session was delivered and marked, then a crash came and a later upload
\* of a client visit failed: the visit is still unsynced
C6_Witness ==
    /\ ~MockMode(env)
    /\ boots > 0
    /\ svc.consecutive_failures > 0
    /\ \E i \in DOMAIN sessions : sessions[i].is_synced = 1
    /\ \E i \in DOMAIN client_visits :
          client_visits[i].is_synced = 0 /\ ~Committed(remote_visits, i)

\* ------------------------------------------------------------------ C7
NoDuplicateKey(remote) ==
    \A j, k \in DOMAIN remote : SameKey(remote[j], remote[k]) => j = k

\* The remote row of local id `id` is exactly `row`
RemoteCarries(remote, id, row) ==
    \A k \in DOMAIN remote :
        (remote[k].branch_id = BRANCH_ID /\ remote[k].local_id = id)
            => remote[k] = row

\* C7: whatever is uploaded, and however often (a first upload, an upload over
\* the mirror of the session in progress, a re-send after a crash between the
\* remote commit and the local mark), the remote never has two rows with one
\* (branch_id, local_id), and when an upload has committed the remote row of
\* each uploaded id carries the field values of that upload.
C7_UpsertIdempotent ==
    [][ /\ NoDuplicateKey(remote_sessions') /\ NoDuplicateKey(remote_visits')
        /\ (svc.pc = "sessions" /\ svc'.pc = "mark_sessions") =>
              \A i \in svc'.batch :
                  /\ Committed(remote_sessions', i)
                  /\ RemoteCarries(remote_sessions', i,
                                   CloudSessionRow(i, sessions[i]))
        /\ (svc.pc = "visits" /\ svc'.pc = "mark_visits") =>
              \A i \in svc'.batch :
                  /\ Committed(remote_visits', i)
                  /\ RemoteCarries(remote_visits', i,
                                   CloudVisitRow(i, client_visits[i]))
      ]_vars

\* After a crash between the commit and the mark, the same finalized session
\* has been uploaded a second time and the commit is about to be marked
C7_Witness ==
    /\ boots > 0
    /\ svc.pc = "mark_sessions"
    /\ \E i \in svc.batch : uploads[i] = 2 /\ sessions[i].is_synced = 0
    /\ NoDuplicateKey(remote_sessions)


\* ------------------------------------------------------------------ C8
\* The remote accepts uploads (in mock mode nothing is sent at all)
RemoteAccepts == MockMode(env) \/ CloudSessionOk(env, netUp)

Pending(rows, i) ==
    i \in DOMAIN rows /\ rows[i].is_checkpoint = 0 /\ rows[i].is_synced = 0

Delivered(rows, i) == i \in DOMAIN rows /\ rows[i].is_synced = 1

\* C8: if from some point on the remote accepts uploads, and the service loop
\* keeps running, every local row that is finalized and unsynced is
\* eventually marked synced, whatever failures and backoff came before.
C8_EventualDelivery ==
    (<>[]RemoteAccepts) =>
        \A i \in 1..MaxRows :
            /\ [](Pending(sessions, i) => <>Delivered(sessions, i))
            /\ [](Pending(client_visits, i) => <>Delivered(client_visits, i))

\* The service is backing off after repeated failures while a finalized row
\* waits behind an already delivered one, and the remote accepts uploads again
C8_Witness ==
    /\ ~MockMode(env)
    /\ RemoteAccepts
    /\ svc.pc = "idle"
    /\ svc.consecutive_failures = MaxFailures
    /\ svc.current_sync_interval > SYNC_INTERVAL_NORMAL
    /\ \E i \in DOMAIN sessions : Delivered(sessions, i)
    /\ \E i \in DOMAIN sessions : Pending(sessions, i)


\* ------------------------------------------------------------------ C11
\* _service_loop has just called _on_sync_failure after a failure that was
\* not the first of its run
FailureAgain ==
    /\ svc.consecutive_failures >= 1
    /\ svc'.consecutive_failures = svc.consecutive_failures + 1

PassSucceeded ==
    /\ svc' # svc
    /\ svc'.pc = "idle"
    /\ svc'.since_sync = 0
    /\ svc'.success

\* C13: a sync pass that succeeds, after any number of failures, leaves the
\* next-attempt interval at SYNC_INTERVAL_NORMAL, the count of consecutive
\* failures at 0 and the service healthy.
C13_SuccessResets ==
    [][PassSucceeded =>
          /\ svc'.current_sync_interval = SYNC_INTERVAL_NORMAL
          /\ svc'.consecutive_failures = 0
          /\ svc'.is_healthy]_vars

\* The latest pass succeeded and restored the connection after failures, and
\* the service is back at the base interval
C13_Witness ==
    /\ svc.pc = "idle"
    /\ svc.success
    /\ svc.restored
    /\ svc.current_sync_interval = SYNC_INTERVAL_NORMAL
    /\ \E i \in DOMAIN sessions : Delivered(sessions, i)


\* ------------------------------------------------------------------ C14
\* The client zone z credits nobody: it has no link, or its link is a place
\* without an employee
Unlinked(z) ==
    /\ places[z].zone_type = "client"
    /\ \/ places[z].linked_employee_id = None
       \/ places[places[z].linked_employee_id].employee_id = None

InProgressUntouched(rows, remote, id) ==
    rows[id].is_checkpoint = 1 =>
        /\ rows[id].is_synced = 0
        /\ ~Committed(remote, id)

\* C15: the unsynced queries return no row with is_checkpoint = 1, so a local
\* row with is_checkpoint = 1 is never in an uploaded batch, never marked
\* synced and never uploaded as a finalized row.
C15_CheckpointsSkipped ==
    /\ \A i \in DOMAIN sessions :
          /\ InProgressUntouched(sessions, remote_sessions, i)
          /\ (svc.pc = "mark_sessions" /\ i \in svc.batch)
                => sessions[i].is_checkpoint = 0
    /\ \A i \in DOMAIN client_visits :
          /\ InProgressUntouched(client_visits, remote_visits, i)
          /\ (svc.pc = "mark_visits" /\ i \in svc.batch)
                => client_visits[i].is_checkpoint = 0

\* A later, finalized row has been uploaded and marked while the row of the
\* session in progress before it was passed over
C15_Witness ==
    \E i, j \in DOMAIN sessions :
        /\ i < j
        /\ sessions[i].is_checkpoint = 1
        /\ sessions[i].is_synced = 0
        /\ sessions[j].is_synced = 1
        /\ Committed(remote_sessions, j)

\* The step is a completed OccupancyEngine.shutdown()
ShutdownDone == life.engine = "up" /\ life'.engine = "down"

\* The rows of a table that record the session a tracker has open
SessionRows(rows, zone_id, t) ==
    {i \in DOMAIN rows :
        /\ rows[i].place_id = zone_id
        /\ (IF "start_time" \in DOMAIN rows[i] THEN rows[i].start_time
                                                ELSE rows[i].enter_time) = t.session_start}

\* C16: after shutdown(), every zone whose tracker was OCCUPIED or
\* CHECKING_EXIT (and whose time is credited to somebody) has its session in
\* its table as exactly one finalized row (is_checkpoint = 0) whose duration
\* is accumulated_time plus the running timer up to the shutdown instant, and
\* no row of that zone is left at is_checkpoint = 1.
C16_ShutdownFinalizes ==
    [][ShutdownDone =>
        \A z \in Zones :
            (trackers[z].state \in {"OCCUPIED", "CHECKING_EXIT"} /\ ~Unlinked(z)) =>
                LET rows == IF places[z].zone_type = "client" THEN client_visits'
                                                              ELSE sessions'
                    R == SessionRows(rows, z, trackers[z])
                IN  /\ Cardinality(R) = 1
                    /\ \A i \in R :
                          /\ rows[i].is_checkpoint = 0
                          /\ rows[i].duration_seconds = CheckpointDuration(trackers[z], now)
                    /\ \A i \in DOMAIN sessions' :
                          sessions'[i].place_id = z => sessions'[i].is_checkpoint = 0
                    /\ \A i \in DOMAIN client_visits' :
                          client_visits'[i].place_id = z => client_visits'[i].is_checkpoint = 0]_vars

\* The same for employee zones only
ShutdownFinalizesEmployeeZones ==
    [][ShutdownDone =>
        \A z \in Zones :
            (trackers[z].state \in {"OCCUPIED", "CHECKING_EXIT"} /\ places[z].zone_type = "employee") =>
                LET R == SessionRows(sessions', z, trackers[z])
                IN  /\ Cardinality(R) = 1
                    /\ \A i \in R :
                          /\ sessions'[i].is_checkpoint = 0
                          /\ sessions'[i].duration_seconds = CheckpointDuration(trackers[z], now)
                    /\ \A i \in DOMAIN sessions' :
                          sessions'[i].place_id = z => sessions'[i].is_checkpoint = 0]_vars

\* The steps of stop() in the order the claim gives
StopOrder == <<"sync", "close", "dispose">>

\* C17: stop() performs its steps in one order only: first the final
\* finalized-record sync pass, then the force-close of the branch's checkpoint
\* rows at the remote, then the release of the connection pool; at every
\* moment the steps done so far are a beginning of that order, and all three
\* are done when stop() has returned.
C17_StopOrder ==
    /\ Len(life.done) <= Len(StopOrder)
    /\ \A i \in DOMAIN life.done : life.done[i] = StopOrder[i]
    /\ life.stop = "returned" => life.done = StopOrder

\* stop() has returned after a final pass that uploaded a row and a
\* force-close that closed a mirrored checkpoint at the remote
C17_Witness ==
    /\ life.stop = "returned"
    /\ life.done = StopOrder
    /\ life.closed
    /\ \E k \in DOMAIN remote_sessions :
          /\ remote_sessions[k].is_checkpoint = 0
          /\ sessions[remote_sessions[k].local_id].is_checkpoint = 1
    /\ \E i \in DOMAIN sessions : sessions[i].is_synced = 1

\* The step is stop()'s final sync pass or its remote force-close
StopRemoteStep == life.stop \in {"final_sync", "close"} /\ life'.stop # life.stop

\* C18: the engine's shutdown() has completed before stop() runs its final
\* sync pass and its remote force-close, and the force-close never closes
\* the remote mirror of a session whose local row is still a checkpoint.
C18_EngineFirst ==
    [][StopRemoteStep =>
        /\ life.engine = "down"
        /\ (life.stop = "close" /\ CloudSessionOk(env, netUp)) =>
              \A k \in DOMAIN remote_sessions :
                  remote_sessions[k].is_checkpoint = 1 =>
                      sessions[remote_sessions[k].local_id].is_checkpoint = 0]_vars

\* C19: once stop() has returned, its force-close having reached the remote,
\* no row of the branch at the remote has is_checkpoint = 1, and none
\* appears later, whatever the loop thread was doing when the join timed out.
C19_NoRemoteCheckpointAfterStop ==
    (life.stop = "returned" /\ life.closed) =>
        \A k \in DOMAIN remote_sessions :
            remote_sessions[k].branch_id = BRANCH_ID =>
                remote_sessions[k].is_checkpoint = 0

\* A local row that is closed: finalized and synced
Closed(r) == r.is_checkpoint = 0 /\ r.is_synced = 1

\* C20: once a local row has is_checkpoint = 0 and is_synced = 1, no step of
\* the engine (update, checkpoint, finalize, shutdown force-finalize) and no
\* step of the sync service changes its end time, its duration, its
\* is_checkpoint or its is_synced.
C20_ClosedRowImmutable ==
    [][/\ \A i \in DOMAIN sessions :
            Closed(sessions[i]) =>
                /\ i \in DOMAIN sessions'
                /\ sessions'[i].end_time = sessions[i].end_time
                /\ sessions'[i].duration_seconds = sessions[i].duration_seconds
                /\ sessions'[i].is_checkpoint = sessions[i].is_checkpoint
                /\ sessions'[i].is_synced = sessions[i].is_synced
       /\ \A i \in DOMAIN client_visits :
            Closed(client_visits[i]) =>
                /\ i \in DOMAIN client_visits'
                /\ client_visits'[i].exit_time = client_visits[i].exit_time
                /\ client_visits'[i].duration_seconds = client_visits[i].duration_seconds
                /\ client_visits'[i].is_checkpoint = client_visits[i].is_checkpoint
                /\ client_visits'[i].is_synced = client_visits[i].is_synced]_vars

\* ------------------------------------------------------------------ C21
\* The step is a whole _sync_data pass of a service in mock mode, from the
\* loop finding it due to its return
MockPass ==
    /\ MockMode(env)
    /\ svc.pc = "idle"
    /\ svc'.pc = "idle"
    /\ svc.since_sync > 0
    /\ svc'.since_sync = 0

\* The rows of a table a pass reads: unsynced and not a checkpoint
Readable(rows) == {i \in DOMAIN rows : rows[i].is_synced = 0 /\ rows[i].is_checkpoint = 0}

\* What a mock pass does to one local table: it changes is_synced only, from
\* 0 to 1, only on rows that were finalized and unsynced, on BATCH_SIZE of
\* them or on all when there are fewer
MockMarks(rows, rows2) ==
    LET marked == {i \in DOMAIN rows : rows2[i].is_synced # rows[i].is_synced}
    IN  /\ DOMAIN rows2 = DOMAIN rows
        /\ \A i \in DOMAIN rows : rows2[i] = [rows[i] EXCEPT !.is_synced = rows2[i].is_synced]
        /\ marked \subseteq Readable(rows)
        /\ \A i \in marked : rows2[i].is_synced = 1
        /\ Cardinality(marked) = Min(BATCH_SIZE, Cardinality(Readable(rows)))

\* C21: in mock mode a sync pass marks is_synced = 1 on the unsynced,
\* non-checkpoint Session and ClientVisit rows it reads (one batch of each),
\* writes nothing to the remote, leaves the checkpoint rows unsynced and
\* reports success to the loop.
C21_MockPassMarks ==
    [][MockPass =>
          /\ MockMarks(sessions, sessions')
          /\ MockMarks(client_visits, client_visits')
          /\ remote_sessions' = remote_sessions
          /\ remote_visits' = remote_visits
          /\ uploads' = uploads
          /\ \A i \in DOMAIN sessions' :
                sessions'[i].is_checkpoint = 1 => sessions'[i].is_synced = 0
          /\ svc'.success
          /\ svc'.consecutive_failures = 0]_vars

\* A mock pass has returned success: a Session and a ClientVisit are marked,
\* a checkpoint row is not, and the remote has received nothing
C21_Witness ==
    /\ MockMode(env)
    /\ svc.pc = "idle"
    /\ svc.success
    /\ \E i \in DOMAIN sessions : sessions[i].is_checkpoint = 0 /\ sessions[i].is_synced = 1
    /\ \E i \in DOMAIN sessions : sessions[i].is_checkpoint = 1 /\ sessions[i].is_synced = 0
    /\ remote_sessions = <<>>
    /\ remote_visits = <<>>

\* ------------------------------------------------------------------ C22
\* The process was started with default settings: neither CLOUD_API_URL nor
\* DB_DSN is set
DefaultSettings == (~env.CLOUD_API_URL) /\ (~env.DB_DSN)

\* C22: mock mode is never the default: a service constructed with default
\* settings has mock_mode off, and no local row is marked synced without the
\* remote having committed its upsert.
C22_MockNeverDefault ==
    DefaultSettings =>
        /\ ~MockMode(env)
        /\ \A i \in DOMAIN sessions :
              sessions[i].is_synced = 1 => Committed(remote_sessions, i)
        /\ \A i \in DOMAIN client_visits :
              client_visits[i].is_synced = 1 => Committed(remote_visits, i)

\* ------------------------------------------------------------------ C23
\* The table a zone's sessions are stored in, and the zone's rows in it that
\* were written since its tracker last left VACANT
ZoneTable(z, ss, cv) == IF places[z].zone_type = "client" THEN cv ELSE ss

ZoneBase(z) == IF places[z].zone_type = "client" THEN obs[z].base_c ELSE obs[z].base_s

OtherTable(z, ss, cv) == IF places[z].zone_type = "client" THEN ss ELSE cv

\* The session in progress on zone z has no row, or one checkpoint row whose
\* id the tracker holds
OneRowInProgress(z, t, ss, cv) ==
    LET rows == ZoneTable(z, ss, cv)
        R == RowsSince(rows, z, ZoneBase(z))
    IN  /\ Cardinality(R) <= 1
        /\ (R = {}) <=> (t.checkpoint_db_id = None)
        /\ \A i \in R : i = t.checkpoint_db_id /\ rows[i].is_checkpoint = 1

C23_WitnessShort ==
    \E z \in Zones :
        LET rows == ZoneTable(z, sessions, client_visits)
        IN  /\ trackers[z] = Tracker0
            /\ sample = [zone |-> z, present |-> FALSE]
            /\ Len(rows) = 1
            /\ rows[1].is_checkpoint = 0
            /\ rows[1].duration_seconds < CHECKPOINT_INTERVAL

\* ------------------------------------------------------------------ C24
\* The step is a checkpoint tick of zone z: update() on an OCCUPIED tracker
\* wrote to the zone's table and the tracker stays OCCUPIED
CheckpointTick(z) ==
    /\ SampleStep(z, TRUE)
    /\ trackers[z].state = "OCCUPIED"
    /\ trackers'[z].state = "OCCUPIED"
    /\ ZoneTable(z, sessions', client_visits') # ZoneTable(z, sessions, client_visits)

\* C24: at every checkpoint tick of a session, the first one included, the
\* checkpoint row holds the tracker's current elapsed duration
\* (accumulated_time plus the running timer) when the tick returns.
C24_CheckpointHoldsElapsed ==
    [][\A z \in Zones :
        CheckpointTick(z) =>
            LET rows2 == ZoneTable(z, sessions', client_visits')
                id == trackers'[z].checkpoint_db_id
            IN  /\ id \in DOMAIN rows2
                /\ rows2[id].duration_seconds = CheckpointDuration(trackers'[z], now')
      ]_vars

\* The same for the ticks after the first
CheckpointUpdateHoldsElapsed ==
    [][\A z \in Zones :
        (CheckpointTick(z) /\ trackers[z].checkpoint_db_id # None) =>
            LET rows2 == ZoneTable(z, sessions', client_visits')
                id == trackers'[z].checkpoint_db_id
            IN  /\ id \in DOMAIN rows2
                /\ rows2[id].duration_seconds = CheckpointDuration(trackers'[z], now')
      ]_vars

\* ------------------------------------------------------------------ C25
\* C25: shutdown() treats a client zone as normal finalization does: a
\* tracker in OCCUPIED or CHECKING_EXIT yields one finalized ClientVisit
\* credited to the resolved employee (its checkpoint row, if any, flipped to
\* is_checkpoint = 0), or nothing when the link does not resolve, and the
\* sessions table is neither extended nor modified.
C25_ShutdownAsFinalize ==
    [][ShutdownDone =>
        \A z \in Zones :
            (/\ places[z].zone_type = "client"
             /\ trackers[z].state \in {"OCCUPIED", "CHECKING_EXIT"}) =>
                /\ sessions' = sessions
                /\ Unlinked(z) => client_visits' = client_visits
                /\ ~Unlinked(z) =>
                     LET R == SessionRows(client_visits', z, trackers[z])
                     IN  /\ Cardinality(R) = 1
                         /\ \A i \in R :
                              /\ client_visits'[i].is_checkpoint = 0
                              /\ client_visits'[i].employee_id
                                   = get_employee_by_place(places, places[z].linked_employee_id)
                         /\ trackers[z].checkpoint_db_id # None =>
                              R = {trackers[z].checkpoint_db_id}
      ]_vars

\* ------------------------------------------------------------------ C26
\* ClientVisit rows credited to an employee (get_client_stats_for_employee's
\* client_count, within one day)
ClientCount(cv, employee_id) ==
    Cardinality({i \in DOMAIN cv : cv[i].employee_id = employee_id})

UploadFails ==
    /\ ~UploadResult(env, netUp)
    /\ \/ svc.pc = "sessions" /\ get_unsynced(sessions, BATCH_SIZE) # {}
       \/ svc.pc = "visits" /\ get_unsynced(client_visits, BATCH_SIZE) # {}
    /\ svc'.pc # svc.pc
    /\ boots' = boots

\* C27: a batch upload that fails ends the pass at once, nothing more is
\* uploaded or marked by it, and the service loop counts the pass as a
\* failure (consecutive_failures one higher, is_healthy false), also when an
\* earlier batch of the pass had succeeded.
C27_FailedBatchFailsPass ==
    [][UploadFails =>
          /\ svc'.pc = "idle"
          /\ TablesUnchanged
          /\ remote_sessions' = remote_sessions
          /\ remote_visits' = remote_visits
          /\ ~svc'.success
          /\ svc'.consecutive_failures = svc.consecutive_failures + 1
          /\ ~svc'.is_healthy
      ]_vars

\* The part of C27 that holds: the pass ends at the failed upload without
\* another upload or mark, and it is a failure when no batch had succeeded
FailedBatchEndsPass ==
    [][UploadFails =>
          /\ svc'.pc = "idle"
          /\ TablesUnchanged
          /\ remote_sessions' = remote_sessions
          /\ remote_visits' = remote_visits
          /\ svc'.success = svc.any_success
          /\ ~svc.any_success =>
               /\ svc'.consecutive_failures = svc.consecutive_failures + 1
               /\ ~svc'.is_healthy
      ]_vars

\* ------------------------------------------------------------------ C28
\* The local table a rejected batch was read from
RejectedTable(l, ss, cv) == IF l.rejected.type = "session" THEN ss ELSE cv

\* The step on which the remote rejects a batch
Rejects == life'.rejected # NoBatch /\ life'.rejected # life.rejected

\* The step on which the unsynced query of the rejected batch's table is
\* issued again
QueriesAgain == life.rejected # NoBatch /\ life'.rejected = NoBatch

\* The rejected batch is kept: the step that rejects it changes neither the
\* remote nor a local row, and as long as the batch has not been read again
\* each record of it is in its table, unsynced and finalized
RejectedBatchKept ==
    /\ Rejects =>
         /\ remote_sessions' = remote_sessions
         /\ remote_visits' = remote_visits
         /\ TablesUnchanged
    /\ life'.rejected # NoBatch =>
         LET rows2 == RejectedTable(life', sessions', client_visits')
         IN  \A i \in life'.rejected.ids :
               /\ i \in DOMAIN rows2
               /\ rows2[i].is_synced = 0
               /\ rows2[i].is_checkpoint = 0

\* C28: when the remote rejects a batch the remote transaction is rolled
\* back (the remote tables are as before the batch), no record of the batch
\* is dropped or marked synced locally, and the next unsynced query of that
\* table returns every record of the batch.
C28_RejectedBatchReturned ==
    [][/\ RejectedBatchKept
       /\ QueriesAgain =>
            life.rejected.ids \subseteq
                get_unsynced(RejectedTable(life, sessions, client_visits),
                             BATCH_SIZE)
      ]_vars

\* C28 as it holds: the next unsynced query returns every record of the
\* rejected batch unless records with lower ids have become pending since
\* (a checkpoint row was finalized) and fill the query's limit before it;
\* the record is then still pending, behind them.
C28_RejectedBatchPending ==
    [][/\ RejectedBatchKept
       /\ QueriesAgain =>
            LET rows == RejectedTable(life, sessions, client_visits)
                batch == get_unsynced(rows, BATCH_SIZE)
            IN  \A i \in life.rejected.ids :
                  \/ i \in batch
                  \/ /\ i \in get_unsynced(rows, Len(rows))
                     /\ Cardinality({j \in batch : j < i /\ j \notin life.rejected.ids})
                            > BATCH_SIZE - Cardinality(life.rejected.ids)
      ]_vars

\* The pass that follows a rejected batch of sessions is about to read the
\* table again and its query returns the batch; the remote has none of it
C28_Witness ==
    /\ life.rejected.type = "session"
    /\ svc.pc = "sessions"
    /\ svc.consecutive_failures > 0
    /\ life.rejected.ids \subseteq get_unsynced(sessions, BATCH_SIZE)
    /\ remote_sessions = <<>>
    /\ netUp

\* A batch has just been rejected after an earlier batch of the pass was
\* uploaded and marked
C28_WitnessRejected ==
    /\ life.rejected.type = "client_visit"
    /\ svc.pc = "idle"
    /\ \E i \in DOMAIN sessions : sessions[i].is_synced = 1
    /\ remote_visits = <<>>

\* ------------------------------------------------------------------ C29
\* What one pass may mark of one table
PassCap == MAX_BATCHES_PER_CYCLE * BATCH_SIZE

\* The rows of a table the step has marked synced
Marked(rows, rows2) ==
    {i \in DOMAIN rows : rows[i].is_synced = 0 /\ rows2[i].is_synced = 1}

\* One pass over a table: at most PassCap rows are marked, they are the first
\* pending rows, every other row is left as it was and the remote has
\* received no more rows than were marked
PassWithinCap(rows, rows2, remote, remote2) ==
    /\ DOMAIN rows2 = DOMAIN rows
    /\ Cardinality(Marked(rows, rows2)) <= PassCap
    /\ Marked(rows, rows2) \subseteq get_unsynced(rows, PassCap)
    /\ \A i \in DOMAIN rows \ Marked(rows, rows2) : rows2[i] = rows[i]
    /\ Len(remote2) - Len(remote) <= PassCap
    /\ Cardinality(get_unsynced(rows2, Len(rows2)))
         >= Cardinality(get_unsynced(rows, Len(rows))) - PassCap

\* C29: one pass of _sync_data uploads at most MAX_BATCHES_PER_CYCLE batches
\* of at most BATCH_SIZE rows of each kind: it marks at most
\* MAX_BATCHES_PER_CYCLE x BATCH_SIZE Session rows and as many ClientVisit
\* rows, whatever the backlog; the rows beyond stay unsynced, unchanged, for
\* a later pass.
C29_PassCapped ==
    [][/\ PassWithinCap(sessions, sessions', remote_sessions, remote_sessions')
       /\ PassWithinCap(client_visits, client_visits', remote_visits,
                        remote_visits')
      ]_vars

\* The first pass over a backlog larger than the cap has run with the remote
\* reachable: PassCap rows of each kind are marked and uploaded, the rest of
\* each table is pending
C29_Witness ==
    /\ ~MockMode(env)
    /\ Len(sessions) > PassCap
    /\ Len(client_visits) > PassCap
    /\ Cardinality({i \in DOMAIN sessions : sessions[i].is_synced = 1}) = PassCap
    /\ Cardinality({i \in DOMAIN client_visits :
                       client_visits[i].is_synced = 1}) = PassCap
    /\ Len(remote_sessions) = PassCap
    /\ Len(remote_visits) = PassCap
    /\ get_unsynced(sessions, 1) # {}
    /\ get_unsynced(client_visits, 1) # {}

\* ------------------------------------------------------------------ C30
\* The step on which _sync_checkpoints executes and commits its upserts
MirrorWrites == life.mirror.pc = "read" /\ life'.mirror.pc = "written"

\* The remote row k is a finalized row: an upsert of its key by
\* _upload_to_cloud_db has been committed
FinalizedAtRemote(k) ==
    /\ remote_sessions[k].branch_id = BRANCH_ID
    /\ remote_sessions[k].is_checkpoint = 0
    /\ uploads[remote_sessions[k].local_id] >= 1

\* C30: once the finalized upsert of a (branch_id, local_id) is committed at
\* the remote, a mirror upsert of _sync_checkpoints that executes later,
\* however its read and its write interleave with the finalized sync, leaves
\* the is_checkpoint (0) and the duration_seconds of that remote row as they
\* were.
C30_MirrorKeepsFinalized ==
    [][MirrorWrites =>
         \A k \in DOMAIN remote_sessions :
            FinalizedAtRemote(k) =>
               /\ k \in DOMAIN remote_sessions'
               /\ remote_sessions'[k].is_checkpoint = 0
               /\ remote_sessions'[k].duration_seconds
                    = remote_sessions[k].duration_seconds
               /\ remote_sessions'[k].end_time = remote_sessions[k].end_time
      ]_vars

\* The mirror has read a row in progress, the row was finalized and uploaded
\* by the final sync, then the mirror executed its upsert of the same key:
\* the remote row is the finalized one
C30_Witness ==
    /\ life.mirror.pc = "written"
    /\ \E i \in life.mirror.late :
         /\ sessions[i].is_checkpoint = 0
         /\ sessions[i].is_synced = 1
         /\ uploads[i] >= 1
         /\ \E k \in DOMAIN remote_sessions :
              /\ remote_sessions[k].local_id = i
              /\ remote_sessions[k].is_checkpoint = 0
              /\ remote_sessions[k].duration_seconds = sessions[i].duration_seconds
              /\ remote_sessions[k].end_time = sessions[i].end_time

\* ------------------------------------------------------------------ C31
\* Persisted durations of the Session rows of zone y that credit employee e
CreditedBy(y, e) ==
    SumDuration(sessions, {i \in DOMAIN sessions :
                              sessions[i].place_id = y /\ sessions[i].employee_id = e})

\* C31: the daily total of a zone with an assigned employee is the persisted
\* durations of the employee's rows summed over every zone, not only this
\* one, plus the live elapsed time of the zone's tracker; the daily total of
\* a zone without an employee is the persisted durations of the zone's own
\* rows plus the live elapsed time.
C31_DailyTotal ==
    \A z \in Zones :
        LET e == places[z].employee_id
            live == get_elapsed_time(trackers[z], now)
            total == get_total_daily_time(places, sessions, trackers, z, now)
        IN  IF e # None
            THEN total = CreditedBy(1, e) + CreditedBy(2, e) + live
            ELSE total = SumDuration(sessions, {i \in DOMAIN sessions :
                                                   sessions[i].place_id = z}) + live

\* The employee has a finalized session at one desk and is sitting at the
\* other: the total of the second desk holds the first desk's session
C31_Witness ==
    \E z \in Zones, y \in Zones :
        /\ y # z
        /\ places[z].employee_id # None
        /\ CreditedBy(y, places[z].employee_id) > 0
        /\ trackers[z].state = "OCCUPIED"
        /\ get_elapsed_time(trackers[z], now) > 0
        /\ get_total_daily_time(places, sessions, trackers, z, now)
             > get_total_time_for_day(sessions, z)
                 + get_elapsed_time(trackers[z], now)

\* ------------------------------------------------------------------ C32
\* The step changes is_synced of a row of the table
Marks(rows, rows2) ==
    \E i \in DOMAIN rows \cap DOMAIN rows2 : rows2[i].is_synced # rows[i].is_synced

\* The table has the same rows after the step, equal in every field but
\* is_synced
OnlySynced(rows, rows2) ==
    /\ DOMAIN rows2 = DOMAIN rows
    /\ \A i \in DOMAIN rows :
         [rows2[i] EXCEPT !.is_synced = rows[i].is_synced] = rows[i]

\* The step is the service's: it wrote to the remote or marked a local row
ServiceActs ==
    \/ remote_sessions' # remote_sessions
    \/ remote_visits' # remote_visits
    \/ uploads' # uploads
    \/ Marks(sessions, sessions')
    \/ Marks(client_visits, client_visits')

ServiceFrameStop ==
    [][(\/ svc' # svc
        \/ life'.stop # life.stop
        \/ life'.loop # life.loop
        \/ ServiceActs) =>
          /\ trackers' = trackers
          /\ OnlySynced(sessions, sessions')
          /\ OnlySynced(client_visits, client_visits')
      ]_vars

CheckpointWrite(z) ==
    LET rows == ZoneTable(z, sessions, client_visits)
        rows2 == ZoneTable(z, sessions', client_visits')
    IN  \E i \in DOMAIN rows2 :
          /\ rows2[i].place_id = z
          /\ rows2[i].is_checkpoint = 1
          /\ (i \notin DOMAIN rows \/ rows2[i] # rows[i])

\* The instant the latest write left in a row: end_time of a Session,
\* exit_time of a ClientVisit
EndOf(r) == IF "end_time" \in DOMAIN r THEN r.end_time ELSE r.exit_time

\* C33: a checkpoint write of a zone happens only on a present sample of the
\* zone whose tracker is OCCUPIED before and after it, never in VACANT,
\* CHECKING_ENTRY or CHECKING_EXIT; and it comes CHECKPOINT_INTERVAL or more
\* after the previous checkpoint write of the same session (the instant that
\* write left in the row).
C33_CheckpointOnlyOccupied ==
    [][\A z \in Zones :
        CheckpointWrite(z) =>
            LET rows == ZoneTable(z, sessions, client_visits)
            IN  /\ sample' = [zone |-> z, present |-> TRUE]
                /\ trackers[z].state = "OCCUPIED"
                /\ trackers'[z].state = "OCCUPIED"
                /\ \A i \in DOMAIN rows :
                     (rows[i].place_id = z /\ rows[i].is_checkpoint = 1) =>
                        /\ i = trackers[z].checkpoint_db_id
                        /\ now' - EndOf(rows[i]) >= CHECKPOINT_INTERVAL
      ]_vars

\* A session has had its second checkpoint write: the tracker is OCCUPIED and
\* its checkpoint row holds two intervals or more
C33_Witness ==
    \E z \in Zones :
        LET rows == ZoneTable(z, sessions, client_visits)
        IN  /\ trackers[z].state = "OCCUPIED"
            /\ sample = [zone |-> z, present |-> TRUE]
            /\ trackers[z].checkpoint_db_id \in DOMAIN rows
            /\ rows[trackers[z].checkpoint_db_id].is_checkpoint = 1
            /\ EndOf(rows[trackers[z].checkpoint_db_id]) = now
            /\ rows[trackers[z].checkpoint_db_id].duration_seconds
                 >= 2 * CHECKPOINT_INTERVAL

\* The duration force_save_session computes for a tracker: accumulated_time
\* after the running timer is flushed into it
ForcedDuration(z) == CheckpointDuration(trackers[z], now)

\* shutdown() force-finalizes the session of zone z
ForceFinalize(z) ==
    /\ ShutdownDone
    /\ trackers[z].state \in {"OCCUPIED", "CHECKING_EXIT"}
    /\ trackers[z].session_start # None

\* C34: at shutdown a force-finalize is discarded (no table changes) exactly
\* when its duration is below the noise floor; a session of the floor's
\* duration or more is persisted
C34_NoiseFloor ==
    [][\A z \in Zones :
         ForceFinalize(z) =>
           (TablesUnchanged <=> ForcedDuration(z) < SHUTDOWN_MIN_DURATION)]_vars

\* What the code does on an employee zone: the finalize is discarded exactly
\* when the duration is not greater than the floor
NoiseFloorInclusive ==
    [][\A z \in Zones :
         ForceFinalize(z) /\ places[z].zone_type = "employee" =>
           (TablesUnchanged <=> ForcedDuration(z) <= SHUTDOWN_MIN_DURATION)]_vars

\* A session of exactly the floor's duration is discarded at shutdown
C34_AtFloorDiscarded ==
    \E z \in Zones :
      /\ life.engine = "down"
      /\ trackers[z].state \in {"OCCUPIED", "CHECKING_EXIT"}
      /\ trackers[z].accumulated_time = SHUTDOWN_MIN_DURATION
      /\ sessions = <<>>
      /\ client_visits = <<>>

\* update() completes the session of zone z normally
Completes(z) ==
    /\ trackers[z].state = "CHECKING_EXIT"
    /\ trackers'[z].state = "VACANT"

\* The rows of zone z that are still checkpoints, in both tables
OpenRows(ss, cv, z) ==
    {<<"session", i>> : i \in {j \in DOMAIN ss : ss[j].place_id = z /\ ss[j].is_checkpoint = 1}}
    \cup
    {<<"client_visit", i>> : i \in {j \in DOMAIN cv : cv[j].place_id = z /\ cv[j].is_checkpoint = 1}}

\* C35: when a session completes normally, no row of its zone is left at
\* is_checkpoint = 1, whatever the zone type, also after the zone's link has
\* stopped resolving and when the finalize write raises
C35_CompletionLeavesNoCheckpoint ==
    [][\A z \in Zones :
         Completes(z) => OpenRows(sessions', client_visits', z) = {}]_vars

\* A completion that writes leaves no row of the zone open
CompletionFinalizes ==
    [][\A z \in Zones :
         Completes(z) /\ ~TablesUnchanged
           => OpenRows(sessions', client_visits', z) = {}]_vars

\* A checkpoint row is left open by a completion
C35_OrphanCheckpoint ==
    \E z \in Zones :
      /\ trackers[z] = Tracker0
      /\ OpenRows(sessions, client_visits, z) # {}

\* The records of the session of zone z that started at s, in both tables
RecordsOf(ss, cv, z, s) ==
    {<<"session", i>> : i \in {j \in DOMAIN ss : ss[j].place_id = z /\ ss[j].start_time = s}}
    \cup
    {<<"client_visit", i>> : i \in {j \in DOMAIN cv : cv[j].place_id = z /\ cv[j].enter_time = s}}

\* No session has two records
OneRecordPerSession(ss, cv) ==
    \A z \in Zones, s \in Epoch..MaxTime : Cardinality(RecordsOf(ss, cv, z, s)) <= 1

\* A step leaves every finalized row as it is
FinalizedKept ==
    /\ \A i \in DOMAIN sessions :
         sessions[i].is_checkpoint = 0 => sessions'[i] = sessions[i]
    /\ \A i \in DOMAIN client_visits :
         client_visits[i].is_checkpoint = 0 => client_visits'[i] = client_visits[i]

\* C36: after shutdown(), another shutdown() or an update() persists no second
\* record for a session and changes no record that is finalized
C36_ForceFinalizeIdempotent ==
    [][life.engine = "down" =>
         /\ OneRecordPerSession(sessions', client_visits')
         /\ FinalizedKept]_vars

\* The same of the engine that has not been shut down
RecordsStable ==
    [][life.engine = "up" /\ life'.engine = "up" =>
         /\ OneRecordPerSession(sessions', client_visits')
         /\ FinalizedKept]_vars

\* A session has two records after the engine was shut down
C36_SecondRecord ==
    /\ life.engine = "down"
    /\ ~OneRecordPerSession(sessions, client_visits)

\* ------------------------------------------------------------------ C37
\* The rows the daily total of zone z reads: the rows of the zone's employee,
\* or of the zone when it has none
DayRows(z) ==
    LET e == get_employee_by_place(places, z)
    IN  IF e # None THEN {i \in DOMAIN sessions : sessions[i].employee_id = e}
        ELSE {i \in DOMAIN sessions : sessions[i].place_id = z}

\* C37: while the session of a zone is in progress and has a checkpoint row,
\* the daily total is the finalized durations of the day plus the live
\* elapsed time: the duration stored in the checkpoint row is not added
C37_InProgressCountedOnce ==
    \A z \in Zones :
        /\ trackers[z].state \in {"OCCUPIED", "CHECKING_EXIT"}
        /\ trackers[z].checkpoint_db_id # None
        => get_total_daily_time(places, sessions, trackers, z, now)
             = SumDuration(sessions, {i \in DayRows(z) : sessions[i].is_checkpoint = 0})
                 + get_zone_time(trackers, z, now)

\* The checkpoint row of the session in progress holds a duration, and the
\* daily total is the finalized durations plus that duration plus the live
\* elapsed time
C37_CountedTwice ==
    \E z \in Zones :
        LET k == trackers[z].checkpoint_db_id
        IN  /\ trackers[z].state = "OCCUPIED"
            /\ k # None
            /\ sessions[k].is_checkpoint = 1
            /\ sessions[k].duration_seconds > 0
            /\ \A i \in DayRows(z) : i # k => sessions[i].is_checkpoint = 0
            /\ get_total_daily_time(places, sessions, trackers, z, now)
                 = SumDuration(sessions, {i \in DayRows(z) : sessions[i].is_checkpoint = 0})
                     + sessions[k].duration_seconds
                     + get_zone_time(trackers, z, now)

\* ------------------------------------------------------------------ C38
\* C38: a record whose upload fails at every attempt does not block the
\* others: while the remote is reachable every other finalized unsynced
\* Session and ClientVisit row is eventually uploaded and marked synced
C38_OthersEventuallySynced ==
    /\ \A i \in 1..MaxRows :
         (i \in DOMAIN sessions /\ i # life.poison /\ netUp)
           ~> (i \in DOMAIN sessions /\ sessions[i].is_synced = 1
                 /\ Committed(remote_sessions, i))
    /\ \A i \in 1..MaxRows :
         (i \in DOMAIN client_visits /\ netUp)
           ~> (i \in DOMAIN client_visits /\ client_visits[i].is_synced = 1
                 /\ Committed(remote_visits, i))

\* While the first row of the sessions table is the rejected one, no row
\* behind it and no client visit is uploaded or marked
HeadOfLineBlocked ==
    life.poison = 1 =>
      /\ \A i \in DOMAIN sessions : sessions[i].is_synced = 0
      /\ \A i \in DOMAIN client_visits : client_visits[i].is_synced = 0
      /\ remote_sessions = <<>>
      /\ remote_visits = <<>>

\* The service has failed on the rejected row MaxFailures times and the
\* rows behind it are still waiting
C38_Blocked ==
    /\ life.poison = 1
    /\ svc.consecutive_failures = MaxFailures
    /\ svc.pc = "idle"
    /\ \E i \in DOMAIN sessions : i # life.poison /\ sessions[i].is_synced = 0

\* ------------------------------------------------------------------ C39
\* The threads that are in _service_loop
LoopsRunning == {t \in 1..MaxThreads : life.threads.loops[t] \in {"head", "body"}}

\* C39: at any time at most one thread is in the service loop, for every
\* sequence of start() and stop() calls
C39_OneServiceLoop == Cardinality(LoopsRunning) <= 1

\* The same until the first stop() has been called
OneLoopBeforeStop ==
    life.threads.starts = 1 /\ life.threads.is_running
        => Cardinality(LoopsRunning) <= 1

\* Two threads are inside an iteration and each of them found is_running
\* True after the latest start(): neither will leave the loop
C39_TwoLoopsStay ==
    \E t, u \in 1..MaxThreads :
        /\ t # u
        /\ life.threads.is_running
        /\ life.threads.caller = "idle"
        /\ life.threads.loops[t] = "body"
        /\ life.threads.loops[u] = "body"
        /\ life.threads.seen[t] = life.threads.starts
        /\ life.threads.seen[u] = life.threads.starts

\* ------------------------------------------------------------------ C40
\* The fields of a tracker agree with its state
TrackerConsistent(t) ==
    /\ t.timer_start_time # None <=> t.state = "OCCUPIED"
    /\ t.exit_start_time # None <=> t.state = "CHECKING_EXIT"
    /\ t.session_start # None <=> t.state \in {"OCCUPIED", "CHECKING_EXIT"}
    /\ t.checkpoint_db_id # None => t.state \in {"OCCUPIED", "CHECKING_EXIT"}
    /\ t.state = "VACANT" => t = Tracker0

\* C40: after any sequence of update() calls, in every tracker
\* timer_start_time is set exactly in OCCUPIED, exit_start_time exactly in
\* CHECKING_EXIT, session_start exactly in OCCUPIED and CHECKING_EXIT,
\* checkpoint_db_id only in those two states, and a VACANT tracker has
\* every field at its initial value
C40_TrackerInvariant == \A z \in Zones : TrackerConsistent(trackers[z])

\* A zone is VACANT again after a session that was long enough for a
\* checkpoint row, and the other state changes have been taken on the way
C40_Witness ==
    \E z \in Zones :
        /\ trackers[z].state = "VACANT"
        /\ \/ \E i \in DOMAIN sessions :
                /\ sessions[i].place_id = z
                /\ sessions[i].is_checkpoint = 0
                /\ sessions[i].duration_seconds >= ENTRY_THRESHOLD + CHECKPOINT_INTERVAL
           \/ \E i \in DOMAIN client_visits :
                /\ client_visits[i].place_id = z
                /\ client_visits[i].is_checkpoint = 0
                /\ client_visits[i].duration_seconds
                     >= CLIENT_ENTRY_THRESHOLD + CHECKPOINT_INTERVAL

====
